---- MODULE Spec2Model ----
(***************************************************************************)
(* trello-autopilot: the fix orchestration pipeline of src/src/core.ts.     *)
(*                                                                         *)
(* run() looks the board up, scans the bug list, selects the bugs and      *)
(* calls fixBug() for each of them in turn; fixBug() drives the coding     *)
(* agent, the version control operations, the test runner and the board.   *)
(* Every await of fixBug is one action: the call is issued and its answer  *)
(* (a value or a thrown error) is drawn from the answers the collaborator  *)
(* can give.  The calls are recorded in the history variable calls.        *)
(*                                                                         *)
(* Specifications:                                                         *)
(*   SpecFix     one fixBug invocation, every combination of answers       *)
(*   Spec        run(): setup, selection, the loop over fixBug, report     *)
(*   SpecSelect  run()'s selection stage over many bug lists and options   *)
(*   SpecReport  generateReport over arbitrary outcome sequences           *)
(* durationMs (wall clock) is not modelled.                                *)
(***************************************************************************)
EXTENDS Integers, Sequences, FiniteSets, TLC

\* ---------------------------------------------------------------- bounds

\* Cards in the sourceCards list of one run.
MaxBugs == 2
\* Collaborator anomalies (a failing call, a failing test run, an empty or
\* oversized output) injected into one run() under Spec.
MaxFaults == 2
\* Length of the outcome sequences handed to generateReport under SpecReport.
MaxResults == 3
\* Length of the sourceCards list under SpecSelect.
MaxScan == 3

\* ------------------------------------------------------- program constants

\* core.ts:315  testResult.output.slice(0, 2000)
TestOutputLimit == 2000
\* core.ts:315  summary.slice(0, 1000)
SummaryLimit == 1000
\* core.ts:340  summary.slice(0, 2000) in the PR body
PrSummaryLimit == 2000

\* ------------------------------------------------------------------ text

\* A JavaScript string: its pieces (concatenation keeps them) and its length.
\* def = FALSE is undefined.
Str(pieces, n) == [def |-> TRUE, tag |-> pieces, len |-> n]
Undef == [def |-> FALSE, tag |-> <<>>, len |-> 0]
Empty == Str(<<>>, 0)

\* JavaScript truthiness of a string | undefined.
Truthy(s) == s.def /\ s.len > 0

\* a + b
Concat(a, b) == Str(a.tag \o b.tag, a.len + b.len)

\* s.slice(0, n): s itself when it fits, else its first n characters.
Slice(s, n) == IF s.len <= n THEN s ELSE Str(<<"first chars of">> \o s.tag, n)

\* s.trim(): the sample outputs carry no outer whitespace except the blank one.
Blank == Str(<<" \n">>, 2)
Trim(s) == IF s = Blank THEN Empty ELSE s

Min(S) == CHOOSE x \in S : \A y \in S : x <= y

\* ---------------------------------------------------------------- labels

\* Label names as they appear on the board, in mixed case.
LabelNames ==
  {"critical", "Critical", "high", "medium", "low", "LOW",
   "fix-failed", "Fix-Failed", "needs-human", "bug", "Bug"}

\* String.prototype.toLowerCase on the label names.
toLowerCase(n) ==
  CASE n = "Critical" -> "critical"
    [] n = "LOW" -> "low"
    [] n = "Fix-Failed" -> "fix-failed"
    [] n = "Bug" -> "bug"
    [] OTHER -> n

\* core.ts:62
PRIORITY_ORDER == <<"critical", "high", "medium", "low">>

\* ----------------------------------------------------------------- cards

CardName(id) == Str(<<"name of ", id>>, 10)

\* BugInfo: a card (id, name, labels in board order) and its comments.
Bug(id, labels) ==
  [card |-> [id |-> id, name |-> CardName(id), labels |-> labels],
   comments |-> <<>>]

NoBug == Bug("", <<>>)

\* Mutant of getPriority: the rank of the first priority label on the card.
getPriorityFirstLabel(card) ==
  LET ks == {k \in DOMAIN card.labels :
               \E i \in 1..Len(PRIORITY_ORDER) : PRIORITY_ORDER[i] = toLowerCase(card.labels[k])}
  IN  IF ks = {} THEN Len(PRIORITY_ORDER)
      ELSE (CHOOSE i \in 1..Len(PRIORITY_ORDER) :
              PRIORITY_ORDER[i] = toLowerCase(card.labels[Min(ks)])) - 1

\* core.ts:74-80
getPriority(card) ==
  LET labelNames == {toLowerCase(card.labels[k]) : k \in DOMAIN card.labels}
      hits == {i \in 1..Len(PRIORITY_ORDER) : PRIORITY_ORDER[i] \in labelNames}
  IN  IF hits = {} THEN Len(PRIORITY_ORDER) ELSE Min(hits) - 1

\* The comparator of core.ts:84.
ComparePriority(a, b) == getPriority(a.card) - getPriority(b.card)

\* Mutant of InsertSorted: an element goes before the elements it ties with.
RECURSIVE InsertSortedUnstable(_, _)
InsertSortedUnstable(sorted, b) ==
  IF sorted = <<>> THEN <<b>>
  ELSE IF ComparePriority(Head(sorted), b) < 0
       THEN <<Head(sorted)>> \o InsertSortedUnstable(Tail(sorted), b)
       ELSE <<b>> \o sorted

\* Array.prototype.sort with a comparator is stable: an element goes after
\* every element that does not compare greater than it.
RECURSIVE InsertSorted(_, _)
InsertSorted(sorted, b) ==
  IF sorted = <<>> THEN <<b>>
  ELSE IF ComparePriority(Head(sorted), b) <= 0
       THEN <<Head(sorted)>> \o InsertSorted(Tail(sorted), b)
       ELSE <<b>> \o sorted

RECURSIVE StableSort(_)
StableSort(s) ==
  IF s = <<>> THEN <<>>
  ELSE InsertSorted(StableSort(SubSeq(s, 1, Len(s) - 1)), s[Len(s)])

\* core.ts:83-85
sortByPriority(bs) == StableSort(bs)

HasLabel(b, lower) ==
  \E k \in DOMAIN b.card.labels : toLowerCase(b.card.labels[k]) = lower

\* Mutant of filterByLabel: the names are compared as written.
filterByLabelCaseSensitive(bs, label) ==
  SelectSeq(bs, LAMBDA b : \E k \in DOMAIN b.card.labels : b.card.labels[k] = label)

\* core.ts:88-92
filterByLabel(bs, label) ==
  SelectSeq(bs, LAMBDA b : HasLabel(b, toLowerCase(label)))

\* Mutant of filterByRetry: only fix-failed counts.
filterByRetryFixFailedOnly(bs) ==
  SelectSeq(bs, LAMBDA b : HasLabel(b, "fix-failed"))

\* core.ts:95-101
filterByRetry(bs) ==
  SelectSeq(bs, LAMBDA b : HasLabel(b, "fix-failed") \/ HasLabel(b, "needs-human"))

\* opts.limit: undefined or a number.
NoLimit == [set |-> FALSE, n |-> 0]
Limit(n) == [set |-> TRUE, n |-> n]

\* Array.prototype.slice(0, n) for n >= 0.
SliceSeq(s, n) == SubSeq(s, 1, IF n < Len(s) THEN n ELSE Len(s))

\* --------------------------------------------------------------- outcomes

\* FixResult (core.ts:20-34).  skipped is "unset", "false" or "true".
\* durationMs?: number, absent or a number of milliseconds.
NoDuration == [def |-> FALSE, ms |-> 0]
Duration(ms) == [def |-> TRUE, ms |-> ms]

FixResult(id, success, summary, error, skipped, branch, diff, pr, tout, blame) ==
  [cardId |-> id, cardName |-> CardName(id), success |-> success,
   summary |-> summary, error |-> error, skipped |-> skipped,
   branch |-> branch, diffSummary |-> diff, prUrl |-> pr,
   testOutput |-> tout, blameInfo |-> blame, durationMs |-> NoDuration]

NoResult ==
  FixResult("", FALSE, Undef, Undef, "unset", Undef, Undef, Undef, Undef, Undef)

\* core.ts:402-411
generateReport(rs) ==
  [total |-> Len(rs),
   fixed |-> Len(SelectSeq(rs, LAMBDA r : r.success)),
   failed |-> Len(SelectSeq(rs, LAMBDA r : ~r.success /\ r.skipped # "true")),
   skipped |-> Len(SelectSeq(rs, LAMBDA r : r.skipped = "true")),
   results |-> rs]

NoReport == [total |-> -1, fixed |-> -1, failed |-> -1, skipped |-> -1, results |-> <<>>]

\* ------------------------------------------------------------------ state

VARIABLES
  opts,        \* AutopilotOpts of the run (core.ts:45-59)
  rpc,         \* where run() is: its next await, "done" or "threw"
  sourceCards, \* the cards (with comments) on the board's source list
  bugs,        \* run()'s local bugs after selection
  idx,         \* position of the for-of loop of core.ts:462
  results,     \* run()'s local results
  report,      \* the Report run() returns
  printed,     \* console lines written by the loop (core.ts:471-476)
  fix,         \* the fixBug invocations: fix[i] is the call for bugs[i]
  calls,       \* history: every collaborator call issued, in order
  faultsLeft,  \* anomalies the collaborators may still produce
  env          \* what lies around run(): the surface that called it, the
               \* process, the repository directory, the board's labels

\* No call of defaultTestRunner.run is under way: the files of the
\* repository directory, the command argument, the command chosen, the
\* commands handed to execAsync, how the last one ended, and the promise's
\* settlement.
NoRunner ==
  [files |-> {}, command |-> [def |-> FALSE, text |-> ""], cmd |-> "",
   executed |-> <<>>,
   outcome |-> [kind |-> "none", stdout |-> "", stderr |-> ""],
   result |-> [passed |-> FALSE, output |-> <<>>, threw |-> FALSE]]

\* No call of TrelloClient.addLabel or removeLabel is under way: the board's
\* labels, the ids of the labels on the card, the method called and its
\* labelName, the board's and the card's labels when it was called, the
\* requests it has sent, the label it found or created, whether its promise rejected, and
\* the number of calls made.
NoTrello ==
  [boardLabels |-> <<>>, cardLabels |-> {}, method |-> "", labelName |-> "",
   before |-> <<>>, cardBefore |-> {}, requests |-> <<>>, label |-> 0,
   threw |-> FALSE, made |-> 0]

\* No call of buildPrompt has been made: the bug it is given (the card's
\* name, description and label names, and the comments), and the parts it
\* joined on the first and on the second call.
NoPrompt ==
  [bug |-> [name |-> "", desc |-> [def |-> FALSE, text |-> ""],
            labels |-> <<>>, comments |-> <<>>],
   parts |-> <<>>, again |-> <<>>]

\* run() or fixBug() called directly, as the tests do: no process around it.
\* exitCode is -1 while the process, if any, is running.  clock is what
\* Date.now() returns.
NoEnv ==
  [surface |-> "direct", help |-> FALSE, board |-> TRUE, exitCode |-> -1,
   cardId |-> "", out |-> <<>>, runner |-> NoRunner, trello |-> NoTrello,
   prompt |-> NoPrompt, clock |-> 0]

runVars == <<env, opts, rpc, sourceCards, bugs, idx, results, report, printed>>
vars == <<env, opts, rpc, sourceCards, bugs, idx, results, report, printed, fix, calls, faultsLeft>>

Invocations == 1..MaxBugs

\* ------------------------------------------------------ collaborator calls

\* The body of a board comment or of a pull request.
Comment(kind, summary, tout, diff, pr, error) ==
  [kind |-> kind, summary |-> summary, testOutput |-> tout,
   diff |-> diff, pr |-> pr, error |-> error]
NoComment == Comment("", Undef, Undef, Undef, Undef, Undef)

\* One collaborator call of invocation inv: the operation, the card, its
\* argument (label name, list id or branch name), the text it carries, and
\* the answer: ok with the value out, or a throw with the message out.
Call(inv, op, card, arg, text, r) ==
  [inv |-> inv, op |-> op, card |-> card, arg |-> arg, text |-> text,
   ok |-> r.ok, out |-> r.val]

\* An answer: a value (ok) or a thrown error with message val.  odd marks an
\* anomaly, which Spec budgets.  passed is the test runner's verdict.
Answer(ok, val, odd, passed) == [ok |-> ok, val |-> val, odd |-> odd, passed |-> passed]
Returns(v) == Answer(TRUE, v, FALSE, TRUE)
ReturnsOdd(v) == Answer(TRUE, v, TRUE, TRUE)
Throws(e) == Answer(FALSE, e, TRUE, TRUE)

\* trello.ts:64  throw new Error(`Trello API ${res.status}: ${body}`)
BoardError == Str(<<"Trello API 500: ">>, 16)
GitError == Str(<<"Command failed: git">>, 19)
ExecError == Str(<<"spawn claude ENOENT">>, 19)
RunnerError == Str(<<"test runner crashed">>, 19)

\* trello.ts:99-144: moveCard, addComment, addLabel, removeLabel resolve or reject.
BoardAnswers == {Returns(Undef), Throws(BoardError)}
\* core.ts:168-170, 175-178
GitVoidAnswers == {Returns(Undef), Throws(GitError)}
\* core.ts:186-191
BlameAnswers == {Returns(Str(<<"blame">>, 5)), Throws(GitError)}
\* core.ts:171-174: git diff --stat, trimmed; empty when nothing changed.
DiffAnswers == {Returns(Str(<<"1 file changed">>, 14)), ReturnsOdd(Empty), Throws(GitError)}
\* core.ts:179-185: stdout of gh pr create, trimmed.
PrAnswers == {Returns(Str(<<"https://pr/1">>, 12)), ReturnsOdd(Empty), Throws(GitError)}
\* core.ts:146-150: stdout of the agent process, or execFile rejects.
LongSummary == Str(<<"long agent output">>, 2500)
ExecAnswers ==
  {Returns(Str(<<"fixed">>, 5)), ReturnsOdd(Blank), ReturnsOdd(LongSummary), Throws(ExecError)}
\* core.ts:196-198: { passed, output }; an injected runner may also reject.
LongTestOutput == Str(<<"long test log">>, 2500)
TestAnswers(custom) ==
  {Returns(Str(<<"all tests passed">>, 16)),
   Answer(TRUE, Str(<<"FAIL: test_login">>, 16), TRUE, FALSE),
   Answer(TRUE, LongTestOutput, TRUE, FALSE)}
  \cup (IF custom THEN {Throws(RunnerError)} ELSE {})

\* core.ts:140-155: invokeAgent's answer for execFile's answer r.
NoOutput == Str(<<"(no output)">>, 11)
invokeAgent(r) ==
  IF r.ok
  THEN [r EXCEPT !.val = IF Truthy(Trim(r.val)) THEN Trim(r.val) ELSE NoOutput]
  ELSE [r EXCEPT !.val = Concat(Str(<<"Agent failed: ">>, 14), r.val)]

\* --------------------------------------------------------------- fixBug

\* core.ts:273
BranchName(id) == Str(<<"fix/card-", id>>, 11)

\* The locals of one fixBug invocation (core.ts:243-278).
IdleFix ==
  [pc |-> "idle", bug |-> NoBug, doneListId |-> "", boardId |-> "",
   dryRun |-> FALSE, pr |-> FALSE, customRunner |-> FALSE,
   branch |-> Undef, diffSummary |-> Undef, prUrl |-> Undef,
   testOutput |-> Undef, blameInfo |-> Undef, summary |-> Undef,
   err |-> Undef, ret |-> NoResult, startTime |-> 0]

\* fixBug(client, bug, doneListId, boardId, repo, opts) is entered;
\* core.ts:258 reads the clock.
EnterFix(bug, doneListId, boardId, dryRun, pr, custom) ==
  [IdleFix EXCEPT !.pc = "entry", !.bug = bug, !.doneListId = doneListId,
                  !.boardId = boardId, !.dryRun = dryRun, !.pr = pr,
                  !.customRunner = custom, !.startTime = env.clock]

\* core.ts:269, 327, 373, 396: Date.now() - startTime
Elapsed(f) == Duration(env.clock - f.startTime)

DryRunSummary(f) == Concat(Str(<<"[dry-run] Would fix: ">>, 21), f.bug.card.name)

\* core.ts:264-270
DryRunResult(f) ==
  [FixResult(f.bug.card.id, TRUE, DryRunSummary(f), Undef, "unset",
             Undef, Undef, Undef, Undef, Undef)
   EXCEPT !.durationMs = Elapsed(f)]

\* core.ts:317-328
TestsFailedResult(f) ==
  [FixResult(f.bug.card.id, FALSE, f.summary, Str(<<"Tests failed after fix">>, 22),
             "unset", f.branch, f.diffSummary, Undef, f.testOutput, f.blameInfo)
   EXCEPT !.durationMs = Elapsed(f)]

\* core.ts:363-374
SuccessResult(f) ==
  [FixResult(f.bug.card.id, TRUE, f.summary, Undef, "unset",
             f.branch, f.diffSummary, f.prUrl, f.testOutput, f.blameInfo)
   EXCEPT !.durationMs = Elapsed(f)]

\* Mutant of CatchResult: the failure outcome has no durationMs.
CatchResultWithoutDuration(f) ==
  FixResult(f.bug.card.id, FALSE, Empty, f.err, "unset",
            f.branch, f.diffSummary, Undef, Undef, f.blameInfo)

\* core.ts:387-397
CatchResult(f) ==
  [FixResult(f.bug.card.id, FALSE, Empty, f.err, "unset",
             f.branch, f.diffSummary, Undef, Undef, f.blameInfo)
   EXCEPT !.durationMs = Elapsed(f)]

\* core.ts:313-316
TestsFailedComment(f, output) ==
  Comment("tests-failed", Slice(f.summary, SummaryLimit),
          Slice(output, TestOutputLimit), Undef, Undef, Undef)

\* Mutant of SuccessComment: the PR link is left out.
SuccessCommentWithoutPr(f) ==
  Comment("fixed", f.summary, Undef,
          IF Truthy(f.diffSummary) THEN f.diffSummary ELSE Undef, Undef, Undef)

\* Mutant of SuccessComment: the changes section is written whether or not
\* a diff was captured.
SuccessCommentAlwaysDiff(f) ==
  Comment("fixed", f.summary, Undef, f.diffSummary,
          IF Truthy(f.prUrl) THEN f.prUrl ELSE Undef, Undef)

\* core.ts:358-360
SuccessComment(f) ==
  Comment("fixed", f.summary, Undef,
          IF Truthy(f.diffSummary) THEN f.diffSummary ELSE Undef,
          IF Truthy(f.prUrl) THEN f.prUrl ELSE Undef, Undef)

\* core.ts:379-382
CatchComment(f) == Comment("failed", Undef, Undef, Undef, Undef, f.err)

\* core.ts:336-341
PrBody(f) == Comment("pr-body", Slice(f.summary, PrSummaryLimit), Undef, Undef, Undef, Undef)

\* The collaborator gives answer r to call c of invocation i.
Issue(c, r) ==
  /\ r.odd => faultsLeft > 0
  /\ calls' = Append(calls, c)
  /\ faultsLeft' = IF r.odd THEN faultsLeft - 1 ELSE faultsLeft

\* fixBug returns result; its locals stay readable as history.
Return(i, result) == fix' = [fix EXCEPT ![i].pc = "returned", ![i].ret = result]

Goto(i, pc) == fix' = [fix EXCEPT ![i].pc = pc]

\* Mutant of FixBugEntry: the agent is invoked first, without a branch.
FixBugEntryAgentFirst(i) ==
  /\ fix[i].pc = "entry"
  /\ IF fix[i].dryRun THEN Return(i, DryRunResult(fix[i])) ELSE Goto(i, "invokeAgent")
  /\ UNCHANGED <<calls, faultsLeft>>
  /\ UNCHANGED runVars

\* Mutant of FixBugEntry: the dry-run flag is not consulted.
FixBugEntryIgnoresDryRun(i) ==
  /\ fix[i].pc = "entry"
  /\ Goto(i, "createBranch")
  /\ UNCHANGED <<calls, faultsLeft>>
  /\ UNCHANGED runVars

\* core.ts:258-273: the dry-run short circuit.
FixBugEntry(i) ==
  /\ fix[i].pc = "entry"
  /\ IF fix[i].dryRun THEN Return(i, DryRunResult(fix[i])) ELSE Goto(i, "createBranch")
  /\ UNCHANGED <<calls, faultsLeft>>
  /\ UNCHANGED runVars

\* Mutant of FixCreateBranch: branch is set before createBranch is awaited.
FixCreateBranchSetsFirst(i) ==
  /\ fix[i].pc = "createBranch"
  /\ \E r \in GitVoidAnswers :
       /\ Issue(Call(i, "createBranch", fix[i].bug.card.id,
                     BranchName(fix[i].bug.card.id).tag, NoComment, r), r)
       /\ fix' = [fix EXCEPT ![i].pc = "blame",
                             ![i].branch = BranchName(fix[i].bug.card.id)]
  /\ UNCHANGED runVars

\* core.ts:282-287
FixCreateBranch(i) ==
  /\ fix[i].pc = "createBranch"
  /\ \E r \in GitVoidAnswers :
       /\ Issue(Call(i, "createBranch", fix[i].bug.card.id,
                     BranchName(fix[i].bug.card.id).tag, NoComment, r), r)
       /\ fix' = [fix EXCEPT ![i].pc = "blame",
                             ![i].branch = IF r.ok THEN BranchName(fix[i].bug.card.id) ELSE @]
  /\ UNCHANGED runVars

\* core.ts:290-294
FixBlame(i) ==
  /\ fix[i].pc = "blame"
  /\ \E r \in BlameAnswers :
       /\ Issue(Call(i, "blame", fix[i].bug.card.id, <<".">>, NoComment, r), r)
       /\ fix' = [fix EXCEPT ![i].pc = "invokeAgent",
                             ![i].blameInfo = IF r.ok THEN r.val ELSE @]
  /\ UNCHANGED runVars

\* Mutant of FixInvokeAgent: an agent failure is absorbed like a failing
\* best-effort step and the pipeline goes on.
FixInvokeAgentAbsorbsFailure(i) ==
  /\ fix[i].pc = "invokeAgent"
  /\ \E x \in ExecAnswers :
       LET r == invokeAgent(x) IN
       /\ Issue(Call(i, "invokeAgent", fix[i].bug.card.id, <<>>, NoComment, r), r)
       /\ fix' = [fix EXCEPT ![i].pc = "getDiff",
                             ![i].summary = IF r.ok THEN r.val ELSE NoOutput]
  /\ UNCHANGED runVars

\* core.ts:297: a throw of invokeAgent leaves the try block.
FixInvokeAgent(i) ==
  /\ fix[i].pc = "invokeAgent"
  /\ \E x \in ExecAnswers :
       LET r == invokeAgent(x) IN
       /\ Issue(Call(i, "invokeAgent", fix[i].bug.card.id, <<>>, NoComment, r), r)
       /\ fix' = IF r.ok
                 THEN [fix EXCEPT ![i].pc = "getDiff", ![i].summary = r.val]
                 ELSE [fix EXCEPT ![i].pc = "catchLabel", ![i].err = r.val]
  /\ UNCHANGED runVars

\* core.ts:300-304
FixGetDiff(i) ==
  /\ fix[i].pc = "getDiff"
  /\ \E r \in DiffAnswers :
       /\ Issue(Call(i, "getDiff", fix[i].bug.card.id, <<>>, NoComment, r), r)
       /\ fix' = [fix EXCEPT ![i].pc = "runTests",
                             ![i].diffSummary = IF r.ok THEN r.val ELSE @]
  /\ UNCHANGED runVars

\* Mutant of AfterTestsPassed: the commit does not depend on the branch.
AfterTestsPassedAlwaysCommit(f) == "commitAndPush"

\* core.ts:332: commit only with a branch.
AfterTestsPassed(f) == IF Truthy(f.branch) THEN "commitAndPush" ELSE "removeFixFailed"

\* core.ts:307-310
FixRunTests(i) ==
  /\ fix[i].pc = "runTests"
  /\ \E r \in TestAnswers(fix[i].customRunner) :
       /\ Issue(Call(i, "runTests", fix[i].bug.card.id, <<>>, NoComment, r), r)
       /\ fix' = IF ~r.ok
                 THEN [fix EXCEPT ![i].pc = "catchLabel", ![i].err = r.val]
                 ELSE [fix EXCEPT ![i].testOutput = r.val,
                                  ![i].pc = IF r.passed THEN AfterTestsPassed(fix[i])
                                            ELSE "failLabel"]
  /\ UNCHANGED runVars

\* core.ts:312
FixFailLabel(i) ==
  /\ fix[i].pc = "failLabel"
  /\ \E r \in BoardAnswers :
       /\ Issue(Call(i, "addLabel", fix[i].bug.card.id, <<"fix-failed">>, NoComment, r), r)
       /\ fix' = IF r.ok
                 THEN [fix EXCEPT ![i].pc = "failComment"]
                 ELSE [fix EXCEPT ![i].pc = "catchLabel", ![i].err = r.val]
  /\ UNCHANGED runVars

\* Mutant of FixFailComment: after the tests-failed comment the invocation
\* goes on to the label cleanup.
FixFailCommentThenCleanup(i) ==
  /\ fix[i].pc = "failComment"
  /\ \E r \in BoardAnswers :
       /\ Issue(Call(i, "addComment", fix[i].bug.card.id, <<>>,
                     TestsFailedComment(fix[i], fix[i].testOutput), r), r)
       /\ fix' = IF r.ok
                 THEN [fix EXCEPT ![i].pc = "removeFixFailed"]
                 ELSE [fix EXCEPT ![i].pc = "catchLabel", ![i].err = r.val]
  /\ UNCHANGED runVars

\* core.ts:313-328
FixFailComment(i) ==
  /\ fix[i].pc = "failComment"
  /\ \E r \in BoardAnswers :
       /\ Issue(Call(i, "addComment", fix[i].bug.card.id, <<>>,
                     TestsFailedComment(fix[i], fix[i].testOutput), r), r)
       /\ IF r.ok
          THEN Return(i, TestsFailedResult(fix[i]))
          ELSE fix' = [fix EXCEPT ![i].pc = "catchLabel", ![i].err = r.val]
  /\ UNCHANGED runVars

\* core.ts:335: a PR only in PR mode.
AfterCommit(f) == IF f.pr THEN "createPR" ELSE "removeFixFailed"

\* Mutant of FixCommitAndPush: a rejected push leaves the outer try.
FixCommitAndPushEscalates(i) ==
  /\ fix[i].pc = "commitAndPush"
  /\ \E r \in GitVoidAnswers :
       /\ Issue(Call(i, "commitAndPush", fix[i].bug.card.id,
                     BranchName(fix[i].bug.card.id).tag, NoComment, r), r)
       /\ fix' = IF r.ok
                 THEN [fix EXCEPT ![i].pc = AfterCommit(fix[i])]
                 ELSE [fix EXCEPT ![i].pc = "catchLabel", ![i].err = r.val]
  /\ UNCHANGED runVars

\* core.ts:333-334, 343-345
FixCommitAndPush(i) ==
  /\ fix[i].pc = "commitAndPush"
  /\ \E r \in GitVoidAnswers :
       /\ Issue(Call(i, "commitAndPush", fix[i].bug.card.id,
                     BranchName(fix[i].bug.card.id).tag, NoComment, r), r)
       /\ Goto(i, IF r.ok THEN AfterCommit(fix[i]) ELSE "removeFixFailed")
  /\ UNCHANGED runVars

\* core.ts:336-345
FixCreatePR(i) ==
  /\ fix[i].pc = "createPR"
  /\ \E r \in PrAnswers :
       /\ Issue(Call(i, "createPR", fix[i].bug.card.id,
                     BranchName(fix[i].bug.card.id).tag, PrBody(fix[i]), r), r)
       /\ fix' = [fix EXCEPT ![i].pc = "removeFixFailed",
                             ![i].prUrl = IF r.ok THEN r.val ELSE @]
  /\ UNCHANGED runVars

\* core.ts:349-350: a throw skips the second removal.
FixRemoveFixFailed(i) ==
  /\ fix[i].pc = "removeFixFailed"
  /\ \E r \in BoardAnswers :
       /\ Issue(Call(i, "removeLabel", fix[i].bug.card.id, <<"fix-failed">>, NoComment, r), r)
       /\ Goto(i, IF r.ok THEN "removeNeedsHuman" ELSE "moveCard")
  /\ UNCHANGED runVars

\* core.ts:351-354
FixRemoveNeedsHuman(i) ==
  /\ fix[i].pc = "removeNeedsHuman"
  /\ \E r \in BoardAnswers :
       /\ Issue(Call(i, "removeLabel", fix[i].bug.card.id, <<"needs-human">>, NoComment, r), r)
       /\ Goto(i, "moveCard")
  /\ UNCHANGED runVars

\* core.ts:357
FixMoveCard(i) ==
  /\ fix[i].pc = "moveCard"
  /\ \E r \in BoardAnswers :
       /\ Issue(Call(i, "moveCard", fix[i].bug.card.id, <<fix[i].doneListId>>, NoComment, r), r)
       /\ fix' = IF r.ok
                 THEN [fix EXCEPT ![i].pc = "successComment"]
                 ELSE [fix EXCEPT ![i].pc = "catchLabel", ![i].err = r.val]
  /\ UNCHANGED runVars

\* Mutant of FixSuccessComment: a rejected comment is ignored.
FixSuccessCommentAbsorbsFailure(i) ==
  /\ fix[i].pc = "successComment"
  /\ \E r \in BoardAnswers :
       /\ Issue(Call(i, "addComment", fix[i].bug.card.id, <<>>, SuccessComment(fix[i]), r), r)
       /\ Return(i, SuccessResult(fix[i]))
  /\ UNCHANGED runVars

\* core.ts:358-374
FixSuccessComment(i) ==
  /\ fix[i].pc = "successComment"
  /\ \E r \in BoardAnswers :
       /\ Issue(Call(i, "addComment", fix[i].bug.card.id, <<>>, SuccessComment(fix[i]), r), r)
       /\ IF r.ok
          THEN Return(i, SuccessResult(fix[i]))
          ELSE fix' = [fix EXCEPT ![i].pc = "catchLabel", ![i].err = r.val]
  /\ UNCHANGED runVars

\* Mutant of FixCatchLabel: the label call is not guarded by the inner try,
\* so its failure rejects fixBug.
FixCatchLabelUnguarded(i) ==
  /\ fix[i].pc = "catchLabel"
  /\ \E r \in BoardAnswers :
       /\ Issue(Call(i, "addLabel", fix[i].bug.card.id, <<"needs-human">>, NoComment, r), r)
       /\ Goto(i, IF r.ok THEN "catchComment" ELSE "threw")
  /\ UNCHANGED runVars

\* core.ts:375-378, 383-398: a throw leaves the inner try, the comment is skipped.
FixCatchLabel(i) ==
  /\ fix[i].pc = "catchLabel"
  /\ \E r \in BoardAnswers :
       /\ Issue(Call(i, "addLabel", fix[i].bug.card.id, <<"needs-human">>, NoComment, r), r)
       /\ IF r.ok THEN Goto(i, "catchComment") ELSE Return(i, CatchResult(fix[i]))
  /\ UNCHANGED runVars

\* Mutant of FixCatchComment: a rejected comment replaces the error reported.
FixCatchCommentMasksError(i) ==
  /\ fix[i].pc = "catchComment"
  /\ \E r \in BoardAnswers :
       /\ Issue(Call(i, "addComment", fix[i].bug.card.id, <<>>, CatchComment(fix[i]), r), r)
       /\ Return(i, CatchResult(IF r.ok THEN fix[i] ELSE [fix[i] EXCEPT !.err = r.val]))
  /\ UNCHANGED runVars

\* core.ts:379-398
FixCatchComment(i) ==
  /\ fix[i].pc = "catchComment"
  /\ \E r \in BoardAnswers :
       /\ Issue(Call(i, "addComment", fix[i].bug.card.id, <<>>, CatchComment(fix[i]), r), r)
       /\ Return(i, CatchResult(fix[i]))
  /\ UNCHANGED runVars

\* One step of some fixBug invocation.
FixStep ==
  \E i \in Invocations :
    \/ FixBugEntry(i)
    \/ FixCreateBranch(i)
    \/ FixBlame(i)
    \/ FixInvokeAgent(i)
    \/ FixGetDiff(i)
    \/ FixRunTests(i)
    \/ FixFailLabel(i)
    \/ FixFailComment(i)
    \/ FixCommitAndPush(i)
    \/ FixCreatePR(i)
    \/ FixRemoveFixFailed(i)
    \/ FixRemoveNeedsHuman(i)
    \/ FixMoveCard(i)
    \/ FixSuccessComment(i)
    \/ FixCatchLabel(i)
    \/ FixCatchComment(i)

\* ------------------------------------------------------------------ run

\* trello.ts:70-73, 81-84: the board or list found, undefined, or a failed request.
LookupAnswers(id) == {Returns(Str(<<id>>, 8)), Returns(Undef), Throws(BoardError)}
\* core.ts:104-122: scanBugs returns the bugs or throws (board or list not
\* found, a failed request).
ScanAnswers == {Returns(Undef), Throws(Str(<<"List not found">>, 14)), Throws(BoardError)}
\* core.ts:231-238: the webhook request resolves or rejects.
FetchAnswers == {Returns(Undef), Throws(Str(<<"fetch failed">>, 12))}

\* core.ts:432, 64-71: createClient throws without credentials.
RunCreateClient ==
  /\ rpc = "createClient"
  /\ \E hasCredentials \in BOOLEAN :
       rpc' = IF hasCredentials THEN "findBoard" ELSE "threw"
  /\ UNCHANGED <<env, opts, sourceCards, bugs, idx, results, report, printed, fix, calls, faultsLeft>>

\* core.ts:434-435
RunFindBoard ==
  /\ rpc = "findBoard"
  /\ \E r \in LookupAnswers("board-1") :
       /\ calls' = Append(calls, Call(0, "findBoard", "", <<>>, NoComment, r))
       /\ rpc' = IF r.ok /\ r.val.def THEN "findDone" ELSE "threw"
  /\ UNCHANGED <<env, opts, sourceCards, bugs, idx, results, report, printed, fix, faultsLeft>>

\* core.ts:437-438
RunFindDoneList ==
  /\ rpc = "findDone"
  /\ \E r \in LookupAnswers("done-list") :
       /\ calls' = Append(calls, Call(0, "findList", "", <<>>, NoComment, r))
       /\ rpc' = IF r.ok /\ r.val.def THEN "scan" ELSE "threw"
  /\ UNCHANGED <<env, opts, sourceCards, bugs, idx, results, report, printed, fix, faultsLeft>>

\* Mutant of SelectBugs: when the filters leave nothing, every scanned bug
\* is processed.
SelectBugsFallsBack(bs, o) ==
  LET a == IF o.retry THEN filterByRetry(bs) ELSE bs
      b == IF o.label # "" THEN filterByLabel(a, o.label) ELSE a
      c == sortByPriority(IF b = <<>> THEN bs ELSE b)
  IN  IF o.limit.set /\ o.limit.n # 0 /\ o.limit.n > 0
      THEN SliceSeq(c, o.limit.n) ELSE c

\* Mutant of SelectBugs: the limit is applied before the sort.
SelectBugsLimitFirst(bs, o) ==
  LET a == IF o.retry THEN filterByRetry(bs) ELSE bs
      b == IF o.label # "" THEN filterByLabel(a, o.label) ELSE a
      c == IF o.limit.set /\ o.limit.n # 0 /\ o.limit.n > 0
           THEN SliceSeq(b, o.limit.n) ELSE b
  IN  sortByPriority(c)

\* core.ts:442-458: retry filter, label filter, priority sort, limit.
SelectBugs(bs, o) ==
  LET a == IF o.retry THEN filterByRetry(bs) ELSE bs
      b == IF o.label # "" THEN filterByLabel(a, o.label) ELSE a
      c == sortByPriority(b)
  IN  IF o.limit.set /\ o.limit.n # 0 /\ o.limit.n > 0
      THEN SliceSeq(c, o.limit.n) ELSE c

\* Mutant of RunScanBugs: a failed scan is taken for a scan that found the
\* cards.
RunScanBugsIgnoresFailure ==
  /\ rpc = "scan"
  /\ \E r \in ScanAnswers :
       /\ calls' = Append(calls, Call(0, "scanBugs", "", <<>>, NoComment, r))
       /\ bugs' = SelectBugs(sourceCards, opts)
       /\ idx' = 1
       /\ rpc' = "loop"
  /\ UNCHANGED <<env, opts, sourceCards, results, report, printed, fix, faultsLeft>>

\* core.ts:440-460: scanBugs, then the selection, up to the loop.
RunScanBugs ==
  /\ rpc = "scan"
  /\ \E r \in ScanAnswers :
       /\ calls' = Append(calls, Call(0, "scanBugs", "", <<>>, NoComment, r))
       /\ IF r.ok
          THEN /\ bugs' = SelectBugs(sourceCards, opts)
               /\ idx' = 1
               /\ rpc' = "loop"
          ELSE /\ rpc' = "threw"
               /\ UNCHANGED <<bugs, idx>>
  /\ UNCHANGED <<env, opts, sourceCards, results, report, printed, fix, faultsLeft>>

\* Mutant of RunCallFixBug: fixBug is called without awaiting it, and the
\* loop goes on to the next bug.
RunCallFixBugNoAwait ==
  /\ rpc = "loop"
  /\ idx <= Len(bugs)
  /\ fix' = [fix EXCEPT ![idx] =
               EnterFix(bugs[idx], "done-list", "board-1", opts.dryRun, opts.pr, FALSE)]
  /\ idx' = idx + 1
  /\ UNCHANGED <<env, opts, rpc, sourceCards, bugs, results, report, printed, calls, faultsLeft>>

\* core.ts:462-468: the loop calls fixBug for the next bug and awaits it,
\* with the default version control operations and test runner.
RunCallFixBug ==
  /\ rpc = "loop"
  /\ idx <= Len(bugs)
  /\ fix' = [fix EXCEPT ![idx] =
               EnterFix(bugs[idx], "done-list", "board-1", opts.dryRun, opts.pr, FALSE)]
  /\ rpc' = "awaitFix"
  /\ UNCHANGED <<env, opts, sourceCards, bugs, idx, results, report, printed, calls, faultsLeft>>

\* core.ts:472-475: the line printed for an outcome.
PrintedLine(r) ==
  [success |-> r.success, cardName |-> r.cardName,
   error |-> IF Truthy(r.error) THEN r.error ELSE Undef,
   pr |-> IF Truthy(r.prUrl) THEN r.prUrl ELSE Undef]

\* Mutant of RunFixSettled: the loop does not advance and takes the same
\* bug again.
RunFixSettledRepeats ==
  /\ rpc = "awaitFix"
  /\ fix[idx].pc \in {"returned", "threw"}
  /\ IF fix[idx].pc = "returned"
     THEN /\ results' = Append(results, fix[idx].ret)
          /\ printed' = IF opts.json THEN printed
                        ELSE Append(printed, PrintedLine(fix[idx].ret))
          /\ rpc' = "loop"
     ELSE /\ rpc' = "threw"
          /\ UNCHANGED <<results, printed>>
  /\ UNCHANGED <<env, opts, sourceCards, bugs, idx, report, fix, calls, faultsLeft>>

\* Mutant of RunFixSettled: the line is printed in json mode too.
RunFixSettledAlwaysPrints ==
  /\ rpc = "awaitFix"
  /\ fix[idx].pc \in {"returned", "threw"}
  /\ IF fix[idx].pc = "returned"
     THEN /\ results' = Append(results, fix[idx].ret)
          /\ printed' = Append(printed, PrintedLine(fix[idx].ret))
          /\ idx' = idx + 1
          /\ rpc' = "loop"
     ELSE /\ rpc' = "threw"
          /\ UNCHANGED <<results, printed, idx>>
  /\ UNCHANGED <<env, opts, sourceCards, bugs, report, fix, calls, faultsLeft>>

\* core.ts:463-477: the awaited fixBug settles.  Its outcome is pushed and,
\* unless in json mode, printed; a rejection would reject run.
RunFixSettled ==
  /\ rpc = "awaitFix"
  /\ fix[idx].pc \in {"returned", "threw"}
  /\ IF fix[idx].pc = "returned"
     THEN /\ results' = Append(results, fix[idx].ret)
          /\ printed' = IF opts.json THEN printed
                        ELSE Append(printed, PrintedLine(fix[idx].ret))
          /\ idx' = idx + 1
          /\ rpc' = "loop"
     ELSE /\ rpc' = "threw"
          /\ UNCHANGED <<results, printed, idx>>
  /\ UNCHANGED <<env, opts, sourceCards, bugs, report, fix, calls, faultsLeft>>

\* Mutant of RunGenerateReport: the delivery is made whether or not a
\* webhook is configured.
RunGenerateReportAlwaysDelivers ==
  /\ rpc = "loop"
  /\ idx > Len(bugs)
  /\ report' = generateReport(results)
  /\ rpc' = "webhook"
  /\ UNCHANGED <<env, opts, sourceCards, bugs, idx, results, printed, fix, calls, faultsLeft>>

\* core.ts:479-486: after the loop the report is generated; it is returned
\* at once when no webhook is configured.
RunGenerateReport ==
  /\ rpc = "loop"
  /\ idx > Len(bugs)
  /\ report' = generateReport(results)
  /\ rpc' = IF opts.webhook THEN "webhook" ELSE "done"
  /\ UNCHANGED <<env, opts, sourceCards, bugs, idx, results, printed, fix, calls, faultsLeft>>

\* core.ts:482-486, 229-239: the webhook request; its failure is swallowed.
RunSendWebhook ==
  /\ rpc = "webhook"
  /\ \E r \in FetchAnswers :
       calls' = Append(calls, Call(0, "sendWebhook", "", <<>>, NoComment, r))
  /\ rpc' = "done"
  /\ UNCHANGED <<env, opts, sourceCards, bugs, idx, results, report, printed, fix, faultsLeft>>

RunStep ==
  \/ RunCreateClient
  \/ RunFindBoard
  \/ RunFindDoneList
  \/ RunScanBugs
  \/ RunCallFixBug
  \/ RunFixSettled
  \/ RunGenerateReport
  \/ RunSendWebhook

Next == RunStep \/ FixStep

Options(dryRun, pr, json, retry, label, limit, webhook) ==
  [dryRun |-> dryRun, pr |-> pr, json |-> json, retry |-> retry,
   label |-> label, limit |-> limit, webhook |-> webhook]

NoOpts == Options(FALSE, FALSE, FALSE, FALSE, "", NoLimit, FALSE)

\* The option bundles of the runs explored under Spec.
RunOptions ==
  {NoOpts,
   Options(TRUE, FALSE, FALSE, FALSE, "", NoLimit, FALSE),
   Options(FALSE, TRUE, FALSE, FALSE, "", NoLimit, TRUE),
   Options(FALSE, FALSE, TRUE, FALSE, "", Limit(1), TRUE),
   Options(FALSE, FALSE, FALSE, TRUE, "critical", NoLimit, FALSE),
   Options(TRUE, FALSE, FALSE, FALSE, "", NoLimit, TRUE)}

CardIds == <<"c1", "c2", "c3", "c4", "c5">>

\* The source list of the runs explored under Spec: n cards, labelled so that
\* the priority sort reorders them and the retry filter drops some.
SourceList(n) ==
  [p \in 1..n |->
     Bug(CardIds[p], IF p % 2 = 1 THEN <<"LOW">> ELSE <<"Critical", "fix-failed">>)]

Init ==
  /\ opts \in RunOptions
  /\ env = NoEnv
  /\ rpc = "createClient"
  /\ sourceCards \in {SourceList(n) : n \in 0..MaxBugs}
  /\ bugs = <<>>
  /\ idx = 0
  /\ results = <<>>
  /\ report = NoReport
  /\ printed = <<>>
  /\ fix = [i \in Invocations |-> IdleFix]
  /\ calls = <<>>
  /\ faultsLeft = MaxFaults

Spec == Init /\ [][Next]_vars

\* ---------------------------------------------------------------- SpecLive

\* The steps of run other than the webhook request.
RunProgress ==
  \/ RunCreateClient
  \/ RunFindBoard
  \/ RunFindDoneList
  \/ RunScanBugs
  \/ RunCallFixBug
  \/ RunFixSettled
  \/ RunGenerateReport

\* run with every awaited call but the webhook request settling.  The request
\* of core.ts:231 carries no timeout and no abort signal, and the endpoint
\* owes no answer: RunSendWebhook, its settling, gets no fairness.
SpecLive == Init /\ [][Next]_vars /\ WF_vars(RunProgress) /\ WF_vars(FixStep)

\* ------------------------------------------------------------ the surfaces

\* Array.prototype.slice(0, n) for any integer n: a negative n counts from
\* the end.
ArraySlice(s, n) ==
  IF n >= 0 THEN SliceSeq(s, n)
  ELSE SubSeq(s, 1, IF Len(s) + n > 0 THEN Len(s) + n ELSE 0)

\* Mutant of McpSelect: the bugs are not sorted.
McpSelectUnsorted(bs, o) ==
  LET b == IF o.label # "" THEN filterByLabel(bs, o.label) ELSE bs
  IN  IF o.limit.set /\ o.limit.n # 0 THEN ArraySlice(b, o.limit.n) ELSE b

\* part_001:37-39 (scan_bugs) and 173-175 (get_report): sort, label filter,
\* and the slice under if (limit).
McpSelect(bs, o) ==
  LET a == sortByPriority(bs)
      b == IF o.label # "" THEN filterByLabel(a, o.label) ELSE a
  IN  IF o.limit.set /\ o.limit.n # 0 THEN ArraySlice(b, o.limit.n) ELSE b

\* part_001:135-137 (retry_failed): retry filter, sort, slice under if (limit).
McpSelectRetry(bs, o) ==
  LET a == sortByPriority(filterByRetry(bs))
  IN  IF o.limit.set /\ o.limit.n # 0 THEN ArraySlice(a, o.limit.n) ELSE a

\* What the command line or a tool writes: the report, an outcome, a list of
\* bugs or an error, on stdout, stderr or as the tool's result.
Output(kind, channel) == [kind |-> kind, channel |-> channel]

\* part_005:29-86: --help or a missing --board print the usage and exit;
\* otherwise run is called (part_005:88-103).
CliMain ==
  /\ rpc = "cli"
  /\ IF env.help \/ ~env.board
     THEN /\ env' = [env EXCEPT !.out = Append(@, Output("usage", "stdout")),
                                !.exitCode = IF env.help THEN 0 ELSE 1]
          /\ rpc' = "exited"
     ELSE /\ rpc' = "createClient"
          /\ UNCHANGED env
  /\ UNCHANGED <<opts, sourceCards, bugs, idx, results, report, printed, fix, calls, faultsLeft>>

\* Mutant of CliReport: the exit status tells whether a bug failed.
CliReportFailsOnFailedBug ==
  /\ env.surface = "cli"
  /\ rpc = "done"
  /\ env' = [env EXCEPT
               !.out = Append(@, Output(IF opts.json THEN "report json" ELSE "report text",
                                        "stdout")),
               !.exitCode = IF report.failed > 0 THEN 1 ELSE 0]
  /\ rpc' = "exited"
  /\ UNCHANGED <<opts, sourceCards, bugs, idx, results, report, printed, fix, calls, faultsLeft>>

\* part_005:105-109: run returned; the report is printed and the process
\* ends with status 0.
CliReport ==
  /\ env.surface = "cli"
  /\ rpc = "done"
  /\ env' = [env EXCEPT
               !.out = Append(@, Output(IF opts.json THEN "report json" ELSE "report text",
                                        "stdout")),
               !.exitCode = 0]
  /\ rpc' = "exited"
  /\ UNCHANGED <<opts, sourceCards, bugs, idx, results, report, printed, fix, calls, faultsLeft>>

\* part_005:110-117: run threw; the error is printed and the process exits
\* with status 1.
CliError ==
  /\ env.surface = "cli"
  /\ rpc = "threw"
  /\ env' = [env EXCEPT
               !.out = Append(@, IF opts.json THEN Output("error json", "stdout")
                                 ELSE Output("error text", "stderr")),
               !.exitCode = 1]
  /\ rpc' = "exited"
  /\ UNCHANGED <<opts, sourceCards, bugs, idx, results, report, printed, fix, calls, faultsLeft>>

CliStep == CliMain \/ CliReport \/ CliError

\* part_001:34-55: scan_bugs.
McpScanBugs ==
  /\ env.surface = "scan_bugs"
  /\ rpc = "tool"
  /\ \E hasCredentials \in BOOLEAN, r \in ScanAnswers :
       IF ~hasCredentials
       THEN /\ rpc' = "threw"
            /\ UNCHANGED <<env, bugs, calls>>
       ELSE /\ calls' = Append(calls, Call(0, "scanBugs", "", <<>>, NoComment, r))
            /\ IF r.ok
               THEN /\ bugs' = McpSelect(sourceCards, opts)
                    /\ env' = [env EXCEPT !.out = Append(@, Output("bugs json", "result"))]
                    /\ rpc' = "done"
               ELSE /\ rpc' = "threw"
                    /\ UNCHANGED <<env, bugs>>
  /\ UNCHANGED <<opts, sourceCards, idx, results, report, printed, fix, faultsLeft>>

\* The position in bs of the card with the given id, 0 when there is none.
FindCard(bs, id) ==
  IF \E p \in DOMAIN bs : bs[p].card.id = id
  THEN CHOOSE p \in DOMAIN bs : bs[p].card.id = id
  ELSE 0

\* part_001:72-90: fix_bug up to its call of fixBug: the scan, the card
\* looked for by id, the board and the done list looked up.  A board that
\* is not found makes boardObj!.id throw.
McpFixBug ==
  /\ env.surface = "fix_bug"
  /\ rpc = "tool"
  /\ \E hasCredentials \in BOOLEAN, r \in ScanAnswers,
        b \in LookupAnswers("board-1"), d \in LookupAnswers("done-list") :
       LET p == FindCard(sourceCards, env.cardId)
           scan == Call(0, "scanBugs", "", <<>>, NoComment, r)
           board == Call(0, "findBoard", "", <<>>, NoComment, b)
           lookups == <<board, Call(0, "findList", "", <<>>, NoComment, d)>>
       IN
       IF ~hasCredentials
       THEN /\ rpc' = "threw"
            /\ UNCHANGED <<env, bugs, idx, fix, calls>>
       ELSE IF ~r.ok
       THEN /\ calls' = Append(calls, scan)
            /\ rpc' = "threw"
            /\ UNCHANGED <<env, bugs, idx, fix>>
       ELSE IF p = 0
       THEN /\ calls' = Append(calls, scan)
            /\ bugs' = sourceCards
            /\ env' = [env EXCEPT !.out = Append(@, Output("error json", "result"))]
            /\ rpc' = "done"
            /\ UNCHANGED <<idx, fix>>
       ELSE IF ~(b.ok /\ b.val.def)
       THEN /\ calls' = Append(calls, scan) \o <<board>>
            /\ bugs' = sourceCards
            /\ rpc' = "threw"
            /\ UNCHANGED <<env, idx, fix>>
       ELSE IF ~d.ok
       THEN /\ calls' = Append(calls, scan) \o lookups
            /\ bugs' = sourceCards
            /\ rpc' = "threw"
            /\ UNCHANGED <<env, idx, fix>>
       ELSE IF ~d.val.def
       THEN /\ calls' = Append(calls, scan) \o lookups
            /\ bugs' = sourceCards
            /\ env' = [env EXCEPT !.out = Append(@, Output("error json", "result"))]
            /\ rpc' = "done"
            /\ UNCHANGED <<idx, fix>>
       ELSE /\ calls' = Append(calls, scan) \o lookups
            /\ bugs' = sourceCards
            /\ idx' = p
            /\ fix' = [fix EXCEPT ![p] =
                         EnterFix(sourceCards[p], "done-list", "board-1",
                                  opts.dryRun, opts.pr, FALSE)]
            /\ rpc' = "toolAwait"
            /\ UNCHANGED env
  /\ UNCHANGED <<opts, sourceCards, results, report, printed, faultsLeft>>

\* part_001:132-143 (retry_failed) and 170-181 (get_report) up to the loop:
\* the scan, the selection, the board and the done list looked up.
McpSelectBugs ==
  /\ env.surface \in {"retry_failed", "get_report"}
  /\ rpc = "tool"
  /\ \E hasCredentials \in BOOLEAN, r \in ScanAnswers,
        b \in LookupAnswers("board-1"), d \in LookupAnswers("done-list") :
       LET scan == Call(0, "scanBugs", "", <<>>, NoComment, r)
           board == Call(0, "findBoard", "", <<>>, NoComment, b)
           lookups == <<board, Call(0, "findList", "", <<>>, NoComment, d)>>
           selected == IF env.surface = "retry_failed"
                       THEN McpSelectRetry(sourceCards, opts)
                       ELSE McpSelect(sourceCards, opts)
       IN
       IF ~hasCredentials
       THEN /\ rpc' = "threw"
            /\ UNCHANGED <<env, bugs, idx, calls>>
       ELSE IF ~r.ok
       THEN /\ calls' = Append(calls, scan)
            /\ rpc' = "threw"
            /\ UNCHANGED <<env, bugs, idx>>
       ELSE IF ~(b.ok /\ b.val.def)
       THEN /\ calls' = Append(calls, scan) \o <<board>>
            /\ bugs' = selected
            /\ idx' = 1
            /\ rpc' = "threw"
            /\ UNCHANGED env
       ELSE /\ calls' = Append(calls, scan) \o lookups
            /\ bugs' = selected
            /\ idx' = 1
            /\ IF ~d.ok
               THEN rpc' = "threw" /\ UNCHANGED env
               ELSE IF ~d.val.def
               THEN /\ env' = [env EXCEPT !.out = Append(@, Output("error json", "result"))]
                    /\ rpc' = "done"
               ELSE rpc' = "toolLoop" /\ UNCHANGED env
  /\ UNCHANGED <<opts, sourceCards, results, report, printed, fix, faultsLeft>>

\* Mutant of McpCallFixBug: get_report does not hand its dryRun on.
McpCallFixBugDropsDryRun ==
  /\ rpc = "toolLoop"
  /\ idx <= Len(bugs)
  /\ fix' = [fix EXCEPT ![idx] =
               EnterFix(bugs[idx], "done-list", "board-1", FALSE,
                        IF env.surface = "retry_failed" THEN opts.pr ELSE FALSE,
                        FALSE)]
  /\ rpc' = "toolAwait"
  /\ UNCHANGED <<env, opts, sourceCards, bugs, idx, results, report, printed, calls, faultsLeft>>

\* part_001:147-148 (retry_failed: { agent, pr }) and 185-186 (get_report:
\* { dryRun, agent }): the loop calls fixBug for the next bug.
McpCallFixBug ==
  /\ rpc = "toolLoop"
  /\ idx <= Len(bugs)
  /\ fix' = [fix EXCEPT ![idx] =
               EnterFix(bugs[idx], "done-list", "board-1",
                        IF env.surface = "get_report" THEN opts.dryRun ELSE FALSE,
                        IF env.surface = "retry_failed" THEN opts.pr ELSE FALSE,
                        FALSE)]
  /\ rpc' = "toolAwait"
  /\ UNCHANGED <<env, opts, sourceCards, bugs, idx, results, report, printed, calls, faultsLeft>>

\* part_001:90-91 (fix_bug returns the outcome), 148-149 and 186-187 (the
\* loops push it).
McpFixSettled ==
  /\ rpc = "toolAwait"
  /\ fix[idx].pc \in {"returned", "threw"}
  /\ IF fix[idx].pc = "threw"
     THEN /\ rpc' = "threw"
          /\ UNCHANGED <<env, results, idx>>
     ELSE /\ results' = Append(results, fix[idx].ret)
          /\ IF env.surface = "fix_bug"
             THEN /\ env' = [env EXCEPT !.out = Append(@, Output("outcome json", "result"))]
                  /\ rpc' = "done"
                  /\ UNCHANGED idx
             ELSE /\ idx' = idx + 1
                  /\ rpc' = "toolLoop"
                  /\ UNCHANGED env
  /\ UNCHANGED <<opts, sourceCards, bugs, report, printed, fix, calls, faultsLeft>>

\* part_001:152-153, 190-191: the report is generated and returned.
McpGenerateReport ==
  /\ rpc = "toolLoop"
  /\ idx > Len(bugs)
  /\ report' = generateReport(results)
  /\ env' = [env EXCEPT !.out = Append(@, Output("report json", "result"))]
  /\ rpc' = "done"
  /\ UNCHANGED <<opts, sourceCards, bugs, idx, results, printed, fix, calls, faultsLeft>>

McpStep ==
  \/ McpScanBugs
  \/ McpFixBug
  \/ McpSelectBugs
  \/ McpCallFixBug
  \/ McpFixSettled
  \/ McpGenerateReport

\* Anomalies of the collaborators within one command or tool call.
SurfaceFaults == 1

\* The arguments of a tool call, as options.
ToolOptions(surface) ==
  CASE surface = "scan_bugs" ->
         {Options(FALSE, FALSE, FALSE, FALSE, label, limit, FALSE) :
            label \in {"", "critical"},
            limit \in {NoLimit, Limit(-1), Limit(0), Limit(1)}}
    [] surface = "fix_bug" ->
         {Options(dryRun, pr, FALSE, FALSE, "", NoLimit, FALSE) :
            dryRun \in BOOLEAN, pr \in BOOLEAN}
    [] surface = "retry_failed" ->
         {Options(FALSE, pr, FALSE, TRUE, "", limit, FALSE) :
            pr \in BOOLEAN, limit \in {NoLimit, Limit(-1), Limit(1)}}
    [] surface = "get_report" ->
         {Options(dryRun, FALSE, FALSE, FALSE, label, limit, FALSE) :
            dryRun \in BOOLEAN, label \in {"", "critical"},
            limit \in {NoLimit, Limit(-1), Limit(1)}}

\* The command line is started, or a tool of the MCP server is called.
InitSurfaces ==
  /\ \/ /\ opts \in RunOptions
        /\ \E help \in BOOLEAN, board \in BOOLEAN :
             env = [NoEnv EXCEPT !.surface = "cli", !.help = help, !.board = board]
        /\ rpc = "cli"
     \/ \E surface \in {"scan_bugs", "fix_bug", "retry_failed", "get_report"} :
          /\ opts \in ToolOptions(surface)
          /\ \E cardId \in {"c1", "c2", "c9"} :
               env = [NoEnv EXCEPT !.surface = surface,
                                   !.cardId = IF surface = "fix_bug" THEN cardId ELSE ""]
          /\ rpc = "tool"
  /\ sourceCards \in {SourceList(n) : n \in 0..MaxBugs}
  /\ bugs = <<>>
  /\ idx = 0
  /\ results = <<>>
  /\ report = NoReport
  /\ printed = <<>>
  /\ fix = [i \in Invocations |-> IdleFix]
  /\ calls = <<>>
  /\ faultsLeft = SurfaceFaults

NextSurfaces == Next \/ CliStep \/ McpStep

SpecSurfaces == InitSurfaces /\ [][NextSurfaces]_vars

\* ---------------------------------------------------------------- SpecFix

\* Every call of one invocation may fail: the budget never binds.
FixCalls == 13

\* fixBug called directly (the tests, the fix_bug tool) for one bug.
InitFix ==
  /\ opts = NoOpts
  /\ env = NoEnv
  /\ rpc = "idle"
  /\ sourceCards = <<>>
  /\ bugs = <<>>
  /\ idx = 0
  /\ results = <<>>
  /\ report = NoReport
  /\ printed = <<>>
  /\ calls = <<>>
  /\ faultsLeft = FixCalls
  /\ \E dryRun \in BOOLEAN, pr \in BOOLEAN, custom \in BOOLEAN :
       fix = [i \in Invocations |->
                IF i = 1
                THEN EnterFix(Bug("c1", <<"critical">>), "done-list", "board-1",
                              dryRun, pr, custom)
                ELSE IdleFix]

SpecFix == InitFix /\ [][FixStep]_vars

\* ---------------------------------------------------------------- SpecClock

\* The milliseconds the clock may advance during one invocation.
MaxClock == 2

\* Time passes: Date.now() returns a later value.  The clock is taken not
\* to be set back while fixBug runs.
ClockTick ==
  /\ env.clock < MaxClock
  /\ env' = [env EXCEPT !.clock = @ + 1]
  /\ UNCHANGED <<opts, rpc, sourceCards, bugs, idx, results, report, printed, fix, calls, faultsLeft>>

\* One invocation of fixBug, entered at any time, with at most one anomaly
\* among its collaborators' answers.
InitClock ==
  /\ opts = NoOpts
  /\ \E now \in 0..1 : env = [NoEnv EXCEPT !.clock = now]
  /\ rpc = "idle"
  /\ sourceCards = <<>>
  /\ bugs = <<>>
  /\ idx = 0
  /\ results = <<>>
  /\ report = NoReport
  /\ printed = <<>>
  /\ calls = <<>>
  /\ faultsLeft = 1
  /\ \E dryRun \in BOOLEAN, pr \in BOOLEAN, custom \in BOOLEAN :
       fix = [i \in Invocations |->
                IF i = 1
                THEN EnterFix(Bug("c1", <<"critical">>), "done-list", "board-1",
                              dryRun, pr, custom)
                ELSE IdleFix]

NextClock == FixStep \/ ClockTick

SpecClock == InitClock /\ [][NextClock]_vars

\* ------------------------------------------------------------- SpecSelect

\* The label lists a card may carry under SpecSelect.
LabelLists ==
  {<<>>, <<"LOW">>, <<"Critical", "Bug">>, <<"Fix-Failed", "bug", "high">>,
   <<"needs-human", "bug", "low", "critical">>}

\* Every source list of n cards: card p has the p-th id.
SourceLists(n) ==
  {[p \in 1..n |-> Bug(CardIds[p], labels[p])] : labels \in [1..n -> LabelLists]}

SelectOptions ==
  {Options(FALSE, FALSE, FALSE, retry, label, limit, FALSE) :
     retry \in BOOLEAN, label \in {"", "critical", "Bug"},
     limit \in {NoLimit, Limit(-1), Limit(0), Limit(1), Limit(2)}}

\* run() has found the board and the done list and is about to scan.
InitSelect ==
  /\ opts \in SelectOptions
  /\ env = NoEnv
  /\ rpc = "scan"
  /\ sourceCards \in UNION {SourceLists(n) : n \in 0..MaxScan}
  /\ bugs = <<>>
  /\ idx = 0
  /\ results = <<>>
  /\ report = NoReport
  /\ printed = <<>>
  /\ fix = [i \in Invocations |-> IdleFix]
  /\ calls = <<>>
  /\ faultsLeft = 0

SpecSelect == InitSelect /\ [][RunScanBugs]_vars

\* ------------------------------------------------------------- SpecReport

\* The outcomes that matter to generateReport: success and skipped.
ReportSamples ==
  {FixResult("c1", success, Undef, Undef, skipped, Undef, Undef, Undef, Undef, Undef) :
     success \in BOOLEAN, skipped \in {"unset", "false", "true"}}

RECURSIVE SeqsUpTo(_, _)
SeqsUpTo(S, n) ==
  IF n = 0 THEN {<<>>}
  ELSE LET shorter == SeqsUpTo(S, n - 1)
       IN  shorter \cup {Append(q, x) : q \in shorter, x \in S}

\* A caller (a test, the get_report tool) hands generateReport a sequence.
CallGenerateReport ==
  /\ rpc = "generateReport"
  /\ report' = generateReport(results)
  /\ rpc' = "done"
  /\ UNCHANGED <<env, opts, sourceCards, bugs, idx, results, printed, fix, calls, faultsLeft>>

InitReport ==
  /\ opts = NoOpts
  /\ env = NoEnv
  /\ rpc = "generateReport"
  /\ sourceCards = <<>>
  /\ bugs = <<>>
  /\ idx = 0
  /\ results \in SeqsUpTo(ReportSamples, MaxResults)
  /\ report = NoReport
  /\ printed = <<>>
  /\ fix = [i \in Invocations |-> IdleFix]
  /\ calls = <<>>
  /\ faultsLeft = 0

SpecReport == InitReport /\ [][CallGenerateReport]_vars

\* ------------------------------------------- the exported pure functions

\* Label lists of the cards handed to the pure functions: those of
\* LabelLists, a reordering of one of them, and cards with two priority
\* labels in both orders.
PureLabelLists ==
  LabelLists \cup
  {<<"critical", "low", "bug", "needs-human">>, <<"medium", "high">>, <<"high", "medium">>}

PureLists(n) ==
  {[p \in 1..n |-> Bug(CardIds[p], labels[p])] : labels \in [1..n -> PureLabelLists]}

\* The label argument of filterByLabel.
PureOptions ==
  {Options(FALSE, FALSE, FALSE, FALSE, label, NoLimit, FALSE) : label \in {"critical", "Bug"}}

\* A caller (a test, the MCP server) calls getPriority(bug.card) for one of
\* its bugs: bugs holds the bug, idx the number returned.
CallGetPriority ==
  /\ rpc = "call"
  /\ \E p \in DOMAIN sourceCards :
       /\ bugs' = <<sourceCards[p]>>
       /\ idx' = getPriority(sourceCards[p].card)
  /\ rpc' = "getPriority"
  /\ UNCHANGED <<env, opts, sourceCards, results, report, printed, fix, calls, faultsLeft>>

\* core.ts:83-85: a caller's array is copied ([...bugs]) and the sorted copy
\* returned in bugs; the caller's array sourceCards is not written.
CallSortByPriority ==
  /\ rpc = "call"
  /\ bugs' = sortByPriority(sourceCards)
  /\ rpc' = "sortByPriority"
  /\ UNCHANGED <<env, opts, sourceCards, idx, results, report, printed, fix, calls, faultsLeft>>

\* core.ts:88-92: filterByLabel(sourceCards, label), and then filterByLabel
\* of what it returned, with the same label.
CallFilterByLabel ==
  /\ rpc \in {"call", "filterByLabel"}
  /\ IF rpc = "call"
     THEN /\ bugs' = filterByLabel(sourceCards, opts.label)
          /\ rpc' = "filterByLabel"
     ELSE /\ bugs' = filterByLabel(bugs, opts.label)
          /\ rpc' = "filterByLabel again"
  /\ UNCHANGED <<env, opts, sourceCards, idx, results, report, printed, fix, calls, faultsLeft>>

\* core.ts:95-101
CallFilterByRetry ==
  /\ rpc = "call"
  /\ bugs' = filterByRetry(sourceCards)
  /\ rpc' = "filterByRetry"
  /\ UNCHANGED <<env, opts, sourceCards, idx, results, report, printed, fix, calls, faultsLeft>>

PureStep ==
  \/ CallGetPriority
  \/ CallSortByPriority
  \/ CallFilterByLabel
  \/ CallFilterByRetry

InitPure ==
  /\ opts \in PureOptions
  /\ env = NoEnv
  /\ rpc = "call"
  /\ sourceCards \in UNION {PureLists(n) : n \in 0..MaxScan}
  /\ bugs = <<>>
  /\ idx = 0
  /\ results = <<>>
  /\ report = NoReport
  /\ printed = <<>>
  /\ fix = [i \in Invocations |-> IdleFix]
  /\ calls = <<>>
  /\ faultsLeft = 0

SpecPure == InitPure /\ [][PureStep]_vars

\* ------------------------------------------------- defaultTestRunner

\* String concatenation of pieces: the empty pieces vanish.
JoinPieces(pieces) == SelectSeq(pieces, LAMBDA x : x # "")

RECURSIVE TrimStart(_)
TrimStart(pieces) ==
  IF pieces # <<>> /\ Head(pieces) = "\n" THEN TrimStart(Tail(pieces)) ELSE pieces

RECURSIVE TrimEnd(_)
TrimEnd(pieces) ==
  IF pieces # <<>> /\ pieces[Len(pieces)] = "\n"
  THEN TrimEnd(SubSeq(pieces, 1, Len(pieces) - 1))
  ELSE pieces

\* String.prototype.trim on a string of pieces whose only white space is
\* the "\n" piece.
TrimPieces(pieces) == TrimEnd(TrimStart(pieces))

PythonMarkers == {"pytest.ini", "setup.py", "pyproject.toml"}

\* core.ts:202-216: the command to run, "" when there is none to run.
\* if (!cmd) takes the empty string as no command.
DetectCommand(command, files) ==
  IF command.def /\ command.text # "" THEN command.text
  ELSE IF "package.json" \in files THEN "npm test"
  ELSE IF files \cap PythonMarkers # {} THEN "pytest"
  ELSE ""

\* How execAsync(cmd, { cwd, timeout: 120_000 }) can end: the command exits
\* with 0, exits with another status, or is killed at the timeout; with what
\* it wrote until then.
ExecOutcomes ==
  [kind : {"exit 0", "exit 1", "timeout"},
   stdout : {"", "2 passing"}, stderr : {"", "warning"}]

\* core.ts:201-217: the command is chosen; without one the promise is
\* fulfilled at once and nothing is executed.
TestRunnerDetect ==
  /\ rpc = "testRunner"
  /\ LET cmd == DetectCommand(env.runner.command, env.runner.files)
     IN IF cmd = ""
        THEN /\ env' = [env EXCEPT !.runner.result =
                          [passed |-> TRUE,
                           output |-> <<"(no test framework detected, skipping)">>,
                           threw |-> FALSE]]
             /\ rpc' = "returned"
        ELSE /\ env' = [env EXCEPT !.runner.cmd = cmd,
                                   !.runner.executed = Append(@, cmd)]
             /\ rpc' = "execAsync"
  /\ UNCHANGED <<opts, sourceCards, bugs, idx, results, report, printed, fix, calls, faultsLeft>>

\* core.ts:218-223 with the mutation that the rejection of execAsync is
\* not caught.
TestRunnerExecRethrows ==
  /\ rpc = "execAsync"
  /\ \E o \in ExecOutcomes :
       env' = [env EXCEPT
                 !.runner.outcome = o,
                 !.runner.result =
                   IF o.kind = "exit 0"
                   THEN [passed |-> TRUE,
                         output |-> TrimPieces(JoinPieces(<<o.stdout, "\n", o.stderr>>)),
                         threw |-> FALSE]
                   ELSE [passed |-> FALSE, output |-> <<>>, threw |-> TRUE]]
  /\ rpc' = "returned"
  /\ UNCHANGED <<opts, sourceCards, bugs, idx, results, report, printed, fix, calls, faultsLeft>>

\* core.ts:218-223: execAsync resolves when the command exits with 0 and
\* rejects otherwise, the timeout included; the rejection is caught.
TestRunnerExec ==
  /\ rpc = "execAsync"
  /\ \E o \in ExecOutcomes :
       env' = [env EXCEPT
                 !.runner.outcome = o,
                 !.runner.result =
                   IF o.kind = "exit 0"
                   THEN [passed |-> TRUE,
                         output |-> TrimPieces(JoinPieces(<<o.stdout, "\n", o.stderr>>)),
                         threw |-> FALSE]
                   ELSE [passed |-> FALSE,
                         output |-> JoinPieces(<<o.stdout, "\n",
                                                 IF o.stderr # "" THEN o.stderr
                                                 ELSE "Command failed">>),
                         threw |-> FALSE]]
  /\ rpc' = "returned"
  /\ UNCHANGED <<opts, sourceCards, bugs, idx, results, report, printed, fix, calls, faultsLeft>>

TestRunnerStep == TestRunnerDetect \/ TestRunnerExec

\* The command argument: absent, empty, or an override.
RunnerCommands ==
  {[def |-> FALSE, text |-> ""], [def |-> TRUE, text |-> ""],
   [def |-> TRUE, text |-> "make test"]}

\* A caller calls defaultTestRunner.run(repo, command) on a repository
\* directory holding any of the files the detection looks for.
InitRunner ==
  /\ opts = NoOpts
  /\ \E files \in SUBSET ({"package.json"} \cup PythonMarkers),
        command \in RunnerCommands :
       env = [NoEnv EXCEPT !.runner.files = files, !.runner.command = command]
  /\ rpc = "testRunner"
  /\ sourceCards = <<>>
  /\ bugs = <<>>
  /\ idx = 0
  /\ results = <<>>
  /\ report = NoReport
  /\ printed = <<>>
  /\ fix = [i \in Invocations |-> IdleFix]
  /\ calls = <<>>
  /\ faultsLeft = 0

SpecRunner == InitRunner /\ [][TestRunnerStep]_vars

\* ------------------------------------- TrelloClient.addLabel, removeLabel

\* The calls of addLabel and removeLabel made on one card.
MaxLabelCalls == 2

\* trello.ts:118 with the mutation that the names are compared as they are.
FindLabelCaseSensitive(labels, labelName) ==
  LET hits == {k \in DOMAIN labels : labels[k].name = labelName}
  IN IF hits = {} THEN 0 ELSE CHOOSE k \in hits : \A l \in hits : k <= l

\* trello.ts:118, 136: labels.find((l) => l.name.toLowerCase() ===
\* labelName.toLowerCase()): the position of the first match, 0 for undefined.
FindLabel(labels, labelName) ==
  LET hits == {k \in DOMAIN labels :
                 toLowerCase(labels[k].name) = toLowerCase(labelName)}
  IN IF hits = {} THEN 0 ELSE CHOOSE k \in hits : \A l \in hits : k <= l

\* A request of req (trello.ts:58-67) and whether the response was ok.
Request(what, label, ok) == [what |-> what, label |-> label, ok |-> ok]

\* fixBug calls client.addLabel or client.removeLabel (core.ts:289-378).
LabelCall ==
  /\ rpc = "trello"
  /\ env.trello.made < MaxLabelCalls
  /\ \E method \in {"addLabel", "removeLabel"},
        labelName \in {"fix-failed", "needs-human"} :
       env' = [env EXCEPT
                 !.trello.method = method,
                 !.trello.labelName = labelName,
                 !.trello.before = env.trello.boardLabels,
                 !.trello.cardBefore = env.trello.cardLabels,
                 !.trello.requests = <<>>,
                 !.trello.label = 0,
                 !.trello.threw = FALSE,
                 !.trello.made = @ + 1]
  /\ rpc' = "getBoardLabels"
  /\ UNCHANGED <<opts, sourceCards, bugs, idx, results, report, printed, fix, calls, faultsLeft>>

\* trello.ts:117-119, 135-137: the board's labels are fetched and searched.
\* A response that is not ok rejects the method's promise.
LabelGetBoardLabels ==
  /\ rpc = "getBoardLabels"
  /\ \E ok \in BOOLEAN :
       LET t == env.trello
           found == FindLabel(t.boardLabels, t.labelName)
           id == IF found = 0 THEN 0 ELSE t.boardLabels[found].id
       IN /\ env' = [env EXCEPT
                       !.trello.requests = Append(@, Request("list", 0, ok)),
                       !.trello.label = IF ok THEN id ELSE 0,
                       !.trello.threw = ~ok]
          /\ rpc' = IF ~ok THEN "trello"
                    ELSE IF t.method = "addLabel"
                         THEN (IF found = 0 THEN "create" ELSE "attach")
                    ELSE (IF found = 0 THEN "trello" ELSE "delete")
  /\ UNCHANGED <<opts, sourceCards, bugs, idx, results, report, printed, fix, calls, faultsLeft>>

\* trello.ts:119-125: the label is created on the board; the response
\* carries the new label.
LabelCreate ==
  /\ rpc = "create"
  /\ \E ok \in BOOLEAN :
       LET t == env.trello
           id == Len(t.boardLabels) + 1
       IN /\ env' = [env EXCEPT
                       !.trello.requests = Append(@, Request("create", 0, ok)),
                       !.trello.boardLabels =
                          IF ok THEN Append(@, [id |-> id, name |-> t.labelName]) ELSE @,
                       !.trello.label = IF ok THEN id ELSE 0,
                       !.trello.threw = ~ok]
          /\ rpc' = IF ok THEN "attach" ELSE "trello"
  /\ UNCHANGED <<opts, sourceCards, bugs, idx, results, report, printed, fix, calls, faultsLeft>>

\* trello.ts:126-130: the label is attached to the card; a response that is
\* not ok, as when the card carries the label already, is swallowed.
LabelAttach ==
  /\ rpc = "attach"
  /\ \E ok \in (IF env.trello.label \in env.trello.cardLabels THEN {FALSE} ELSE BOOLEAN) :
       env' = [env EXCEPT
                 !.trello.requests = Append(@, Request("attach", env.trello.label, ok)),
                 !.trello.cardLabels = IF ok THEN @ \cup {env.trello.label} ELSE @]
  /\ rpc' = "trello"
  /\ UNCHANGED <<opts, sourceCards, bugs, idx, results, report, printed, fix, calls, faultsLeft>>

\* trello.ts:137-143: the label is taken off the card; a response that is
\* not ok, as when the card does not carry the label, is swallowed.
LabelDelete ==
  /\ rpc = "delete"
  /\ \E ok \in (IF env.trello.label \in env.trello.cardLabels THEN BOOLEAN ELSE {FALSE}) :
       env' = [env EXCEPT
                 !.trello.requests = Append(@, Request("delete", env.trello.label, ok)),
                 !.trello.cardLabels = IF ok THEN @ \ {env.trello.label} ELSE @]
  /\ rpc' = "trello"
  /\ UNCHANGED <<opts, sourceCards, bugs, idx, results, report, printed, fix, calls, faultsLeft>>

LabelStep ==
  \/ LabelCall
  \/ LabelGetBoardLabels
  \/ LabelCreate
  \/ LabelAttach
  \/ LabelDelete

\* The labels a board can start with: no two of the same name.
LabelBoards ==
  {<<>>,
   <<[id |-> 1, name |-> "Fix-Failed"]>>,
   <<[id |-> 1, name |-> "bug"], [id |-> 2, name |-> "needs-human"]>>}

\* A card on a board, carrying any of the board's labels.
InitLabels ==
  /\ opts = NoOpts
  /\ \E board \in LabelBoards :
       \E card \in SUBSET {board[k].id : k \in DOMAIN board} :
         env = [NoEnv EXCEPT !.trello.boardLabels = board, !.trello.cardLabels = card]
  /\ rpc = "trello"
  /\ sourceCards = <<>>
  /\ bugs = <<>>
  /\ idx = 0
  /\ results = <<>>
  /\ report = NoReport
  /\ printed = <<>>
  /\ fix = [i \in Invocations |-> IdleFix]
  /\ calls = <<>>
  /\ faultsLeft = 0

SpecLabels == InitLabels /\ [][LabelStep]_vars

\* ------------------------------------------------------------ buildPrompt

\* One element of parts: what it is and the texts put into its template.
Part(kind, texts) == [kind |-> kind, texts |-> texts]

\* core.ts:132-134: one "- author: text" part per comment, in order.
CommentParts(comments) ==
  [k \in DOMAIN comments |->
     Part("comment", <<comments[k].fullName, comments[k].text>>)]

\* core.ts:125-137 with the mutation that the headings are always pushed.
buildPromptEmptyHeadings(bug) ==
  <<Part("title", <<bug.name>>)>>
  \o <<Part("description", <<bug.desc.text>>)>>
  \o <<Part("labels", bug.labels)>>
  \o <<Part("comments", <<>>)>> \o CommentParts(bug.comments)

\* core.ts:125-137: the parts that are joined with "\n".  if (bug.card.desc)
\* is false for a missing and for an empty description.
buildPrompt(bug) ==
  <<Part("title", <<bug.name>>)>>
  \o (IF bug.desc.def /\ bug.desc.text # ""
      THEN <<Part("description", <<bug.desc.text>>)>> ELSE <<>>)
  \o (IF Len(bug.labels) # 0 THEN <<Part("labels", bug.labels)>> ELSE <<>>)
  \o (IF Len(bug.comments) # 0
      THEN <<Part("comments", <<>>)>> \o CommentParts(bug.comments)
      ELSE <<>>)

\* A caller (fixBug at core.ts:259, a test) calls buildPrompt(bug).
CallBuildPrompt ==
  /\ rpc = "call"
  /\ env' = [env EXCEPT !.prompt.parts = buildPrompt(env.prompt.bug)]
  /\ rpc' = "buildPrompt"
  /\ UNCHANGED <<opts, sourceCards, bugs, idx, results, report, printed, fix, calls, faultsLeft>>

\* The caller calls buildPrompt on the same bug once more.
CallBuildPromptAgain ==
  /\ rpc = "buildPrompt"
  /\ env' = [env EXCEPT !.prompt.again = buildPrompt(env.prompt.bug)]
  /\ rpc' = "buildPrompt again"
  /\ UNCHANGED <<opts, sourceCards, bugs, idx, results, report, printed, fix, calls, faultsLeft>>

PromptStep == CallBuildPrompt \/ CallBuildPromptAgain

\* The comments of a card: memberCreator.fullName and data.text.
PromptComments ==
  LET a == [fullName |-> "Ann", text |-> "fails on Safari"]
      b == [fullName |-> "Bob", text |-> ""]
  IN {<<>>, <<a>>, <<a, b>>, <<b, a>>, <<a, a>>}

\* The bugs buildPrompt is called on.
PromptBugs ==
  [name : {"Login fails", ""},
   desc : {[def |-> FALSE, text |-> ""], [def |-> TRUE, text |-> ""],
           [def |-> TRUE, text |-> "Steps to reproduce"]},
   labels : {<<>>, <<"bug">>, <<"bug", "critical">>},
   comments : PromptComments]

InitPrompt ==
  /\ opts = NoOpts
  /\ \E bug \in PromptBugs : env = [NoEnv EXCEPT !.prompt.bug = bug]
  /\ rpc = "call"
  /\ sourceCards = <<>>
  /\ bugs = <<>>
  /\ idx = 0
  /\ results = <<>>
  /\ report = NoReport
  /\ printed = <<>>
  /\ fix = [i \in Invocations |-> IdleFix]
  /\ calls = <<>>
  /\ faultsLeft = 0

SpecPrompt == InitPrompt /\ [][PromptStep]_vars

\* ---------------------------------------------------------------- SpecOrder

\* The arguments of a tool's selection: a label for scan_bugs and
\* get_report, and a limit that is absent, zero or positive.
OrderOptions(surface) ==
  {Options(FALSE, FALSE, FALSE, surface = "retry_failed", label, limit, FALSE) :
     label \in (IF surface = "retry_failed" THEN {""} ELSE {"", "critical", "Bug"}),
     limit \in {NoLimit, Limit(0), Limit(1), Limit(2)}}

\* scan_bugs, retry_failed or get_report is called on any source list.
InitOrder ==
  /\ \E surface \in {"scan_bugs", "retry_failed", "get_report"} :
       /\ env = [NoEnv EXCEPT !.surface = surface]
       /\ opts \in OrderOptions(surface)
  /\ rpc = "tool"
  /\ sourceCards \in UNION {SourceLists(n) : n \in 0..MaxScan}
  /\ bugs = <<>>
  /\ idx = 0
  /\ results = <<>>
  /\ report = NoReport
  /\ printed = <<>>
  /\ fix = [i \in Invocations |-> IdleFix]
  /\ calls = <<>>
  /\ faultsLeft = 0

\* The tools up to their selection.
NextOrder == McpScanBugs \/ McpSelectBugs

SpecOrder == InitOrder /\ [][NextOrder]_vars

\* ------------------------------------------------- history of an invocation

Returned(i) == fix[i].pc = "returned"

\* The positions in calls of invocation i's calls of operation op.
CallsAt(i, op) == {k \in DOMAIN calls : calls[k].inv = i /\ calls[k].op = op}
Issued(i, op) == CallsAt(i, op) # {}
IssuedWith(i, op, arg) == \E k \in CallsAt(i, op) : calls[k].arg = arg
Succeeded(i, op) == \E k \in CallsAt(i, op) : calls[k].ok
Failed(i, op) == \E k \in CallsAt(i, op) : ~calls[k].ok
NoCalls(i) == \A k \in DOMAIN calls : calls[k].inv # i

\* The card of invocation i has been moved by this invocation.
Moved(i) == Succeeded(i, "moveCard")
AgentThrew(i) == Failed(i, "invokeAgent")
\* The test run of invocation i returned and reported passed = v.
TestsReported(i, v) ==
  \E k \in CallsAt(i, "runTests") :
    /\ calls[k].ok
    /\ (calls[k].out = Str(<<"all tests passed">>, 16)) = v
\* No board call of invocation i failed.
BoardCallsSucceeded(i) ==
  \A k \in DOMAIN calls :
    (calls[k].inv = i /\ calls[k].op \in {"moveCard", "addComment", "addLabel", "removeLabel"})
      => calls[k].ok

\* ----------------------------------------------------------- claims: fixBug

\* C1: a card this invocation moved (moveCard issued and succeeded) has an
\* outcome with success = true and skipped unset; no success = false outcome
\* is returned for a moved card.
C1_MovedOnlyIfSucceeded ==
  \A i \in Invocations :
    (Returned(i) /\ Moved(i)) =>
      (fix[i].ret.success /\ fix[i].ret.skipped = "unset")

\* C3: in dry-run mode fixBug returns success = true with the "[dry-run]"
\* marker in the summary and issues no call to the agent, the version control
\* operations, the test runner or the board.
C3_DryRunNoCalls ==
  \A i \in Invocations :
    (fix[i].dryRun /\ fix[i].pc # "idle") =>
      /\ NoCalls(i)
      /\ fix[i].pc \in {"entry", "returned"}
      /\ Returned(i) =>
           /\ fix[i].ret.success
           /\ fix[i].ret.summary.tag[1] = "[dry-run] Would fix: "
           /\ fix[i].ret.error = Undef

C3_Witness == \E i \in Invocations : fix[i].dryRun /\ Returned(i)

\* C4: when the agent invocation throws, the outcome has success = false and
\* the thrown message as error, addLabel(needs-human) is issued, and no
\* getDiff, test run, commitAndPush, createPR, removeLabel or moveCard is.
C4_AgentFailure ==
  \A i \in Invocations :
    AgentThrew(i) =>
      /\ \A op \in {"getDiff", "runTests", "commitAndPush", "createPR",
                    "removeLabel", "moveCard"} : ~Issued(i, op)
      /\ Returned(i) =>
           /\ ~fix[i].ret.success
           /\ \E k \in CallsAt(i, "invokeAgent") : fix[i].ret.error = calls[k].out
           /\ IssuedWith(i, "addLabel", <<"needs-human">>)
           /\ \E k \in CallsAt(i, "addLabel") :
                calls[k].card = fix[i].bug.card.id /\ calls[k].arg = <<"needs-human">>

C4_Witness == \E i \in Invocations : AgentThrew(i) /\ Returned(i)

TestsFailedError == Str(<<"Tests failed after fix">>, 22)

\* C5: when the agent succeeds and the test run reports passed = false, the
\* outcome has success = false and error "Tests failed after fix",
\* addLabel(fix-failed) is issued, a comment with the test output cut to 2000
\* characters and the summary cut to 1000 is appended, and no moveCard is issued.
C5_TestsFailed ==
  \A i \in Invocations :
    (Returned(i) /\ TestsReported(i, FALSE)) =>
      /\ ~fix[i].ret.success
      /\ fix[i].ret.error = TestsFailedError
      /\ IssuedWith(i, "addLabel", <<"fix-failed">>)
      /\ \E k \in CallsAt(i, "addComment") :
           /\ calls[k].ok
           /\ calls[k].text.kind = "tests-failed"
           /\ calls[k].text.testOutput = Slice(fix[i].testOutput, TestOutputLimit)
           /\ calls[k].text.testOutput.len <= TestOutputLimit
           /\ calls[k].text.summary = Slice(fix[i].summary, SummaryLimit)
           /\ calls[k].text.summary.len <= SummaryLimit
      /\ ~Issued(i, "moveCard")

\* The case of C6: PR mode, and the agent, the tests, createBranch,
\* commitAndPush, createPR and every board call succeeded.
AllSucceededWithPr(i) ==
  /\ Returned(i)
  /\ fix[i].pr
  /\ Succeeded(i, "invokeAgent")
  /\ TestsReported(i, TRUE)
  /\ Succeeded(i, "createBranch")
  /\ Succeeded(i, "commitAndPush")
  /\ Succeeded(i, "createPR")
  /\ BoardCallsSucceeded(i)

\* What C6 promises of such an invocation.
PrOutcome(i) ==
  /\ fix[i].ret.success
  /\ \E k \in CallsAt(i, "createPR") : fix[i].ret.prUrl = calls[k].out
  /\ \E k \in CallsAt(i, "moveCard") :
       calls[k].card = fix[i].bug.card.id /\ calls[k].arg = <<fix[i].doneListId>>
  /\ \E k \in CallsAt(i, "addComment") :
       /\ calls[k].text.summary = fix[i].ret.summary
       /\ fix[i].ret.summary = fix[i].summary
       /\ calls[k].text.pr.def
       /\ calls[k].text.pr = fix[i].ret.prUrl
  /\ ~Issued(i, "addLabel")

\* C6 as stated: with PR mode on and everything succeeding, the outcome has
\* success = true and the prUrl createPR returned, the card is moved to the
\* done list, the comment holds the summary and the PR link, and no failure
\* label is added.
C6_PrSuccess == \A i \in Invocations : AllSucceededWithPr(i) => PrOutcome(i)

\* C6 as amended: the same, when createPR returned a non-empty URL.
C6_PrSuccessNonEmptyUrl ==
  \A i \in Invocations :
    (AllSucceededWithPr(i) /\ \E k \in CallsAt(i, "createPR") : calls[k].out.len > 0)
      => PrOutcome(i)

C6_Witness ==
  \E i \in Invocations :
    AllSucceededWithPr(i) /\ \E k \in CallsAt(i, "createPR") : calls[k].out.len > 0

\* C7: every value of branch, diffSummary, blameInfo, prUrl and testOutput
\* that fixBug recorded is in the outcome it returns, on every return path.
C7_ProgressPreserved ==
  \A i \in Invocations :
    (Returned(i) /\ ~fix[i].dryRun) =>
      /\ fix[i].ret.branch = fix[i].branch
      /\ fix[i].ret.diffSummary = fix[i].diffSummary
      /\ fix[i].ret.blameInfo = fix[i].blameInfo
      /\ fix[i].ret.prUrl = fix[i].prUrl
      /\ fix[i].ret.testOutput = fix[i].testOutput

\* -------------------------------------------------- claims: generateReport

\* C2: fixed + failed + skipped = total for every outcome sequence, the
\* empty one included, where all four counts are zero.
C2_CountsAddUp ==
  report # NoReport =>
    /\ report.total = Len(results)
    /\ report.fixed + report.failed + report.skipped = report.total
    /\ results = <<>> =>
         (report.total = 0 /\ report.fixed = 0 /\ report.failed = 0 /\ report.skipped = 0)

\* -------------------------------------------------------------- claims: run

Active(i) == fix[i].pc \notin {"idle", "returned"}
Started(i) == fix[i].pc # "idle"

\* C8: once the setup has succeeded run never aborts: fixBug returns for
\* every combination of failures, and run appends one outcome per selected
\* bug, in selection order, so that the report's results match the bugs.
C8_OneOutcomePerBug ==
  /\ \A i \in Invocations : fix[i].pc # "threw"
  /\ rpc = "threw" => (results = <<>> /\ \A i \in Invocations : ~Started(i))
  /\ Len(results) <= Len(bugs)
  /\ \A k \in DOMAIN results : results[k].cardId = bugs[k].card.id
  /\ \A i \in Invocations : Returned(i) => fix[i].ret.cardId = bugs[i].card.id
  /\ rpc \in {"webhook", "done"} =>
       /\ Len(results) = Len(bugs)
       /\ report.results = results
       /\ report.total = Len(bugs)

\* A run that went on after a failed bug.
C8_Witness ==
  /\ rpc = "done"
  /\ Len(results) = 2
  /\ ~results[1].success
  /\ results[2].success
  /\ Failed(1, "moveCard")

\* C9: bugs are processed one at a time: at most one fixBug invocation is in
\* progress, and invocation i starts, and issues its calls, only after the
\* outcomes of all earlier bugs have been returned and appended to results.
C9_Sequential ==
  /\ Cardinality({i \in Invocations : Active(i)}) <= 1
  /\ \A i \in Invocations :
       Started(i) =>
         /\ Len(results) >= i - 1
         /\ \A j \in 1..(i - 1) : Returned(j) /\ results[j] = fix[j].ret
       \* an invocation in progress is the one the loop awaits
  /\ \A i \in Invocations : Active(i) => (rpc = "awaitFix" /\ idx = i /\ Len(results) = i - 1)
       \* calls only grows: the latest call of an invocation follows no call
       \* of a later invocation
  /\ (calls # <<>> /\ calls[Len(calls)].inv >= 1) =>
       \A k \in DOMAIN calls : calls[k].inv <= calls[Len(calls)].inv

\* The second bug's agent is running after the first bug's outcome is in.
C9_Witness ==
  /\ Len(results) = 1
  /\ Active(2)
  /\ Issued(1, "invokeAgent")
  /\ Issued(2, "invokeAgent")

\* -------------------------------------------------------- claims: selection

\* The position of a selected bug in the source list (card ids are unique).
PosOf(b) == CHOOSE p \in DOMAIN sourceCards : sourceCards[p].card.id = b.card.id

\* Eligible under the options: the retry filter and the label filter.
Eligible(b) ==
  /\ opts.retry =>
       \E k \in DOMAIN b.card.labels :
         toLowerCase(b.card.labels[k]) \in {"fix-failed", "needs-human"}
  /\ opts.label # "" =>
       \E k \in DOMAIN b.card.labels :
         toLowerCase(b.card.labels[k]) = toLowerCase(opts.label)

EligiblePositions == {p \in DOMAIN sourceCards : Eligible(sourceCards[p])}

\* p comes before q in the stable priority order of the source list.
Before(p, q) ==
  \/ getPriority(sourceCards[p].card) < getPriority(sourceCards[q].card)
  \/ /\ getPriority(sourceCards[p].card) = getPriority(sourceCards[q].card)
     /\ p < q

HasLimit == opts.limit.set /\ opts.limit.n > 0

\* C10: the bugs run processes are the eligible bugs (retry filter, label
\* filter) in stable priority order, cut to the first N under a positive limit
\* N: no eligible bug left out ranks strictly better than a processed one.
C10_SelectionOrder ==
  rpc = "loop" =>
    /\ \A k \in DOMAIN bugs :
         /\ \E p \in EligiblePositions : sourceCards[p] = bugs[k]
    /\ \A k, l \in DOMAIN bugs : k < l => Before(PosOf(bugs[k]), PosOf(bugs[l]))
    /\ Len(bugs) = IF HasLimit /\ opts.limit.n < Cardinality(EligiblePositions)
                   THEN opts.limit.n ELSE Cardinality(EligiblePositions)
    /\ \A p \in EligiblePositions :
         (\A k \in DOMAIN bugs : bugs[k] # sourceCards[p]) =>
           \A k \in DOMAIN bugs :
             /\ Before(PosOf(bugs[k]), p)
             /\ getPriority(sourceCards[p].card) >= getPriority(bugs[k].card)

\* A limit that cuts, after filters that drop, with the sort reordering: an
\* eligible bug earlier in the source list is left out for a better-ranked one.
C10_Witness ==
  /\ rpc = "loop"
  /\ HasLimit
  /\ opts.retry
  /\ opts.label # ""
  /\ Len(bugs) = 1
  /\ Cardinality(EligiblePositions) = 2
  /\ Len(sourceCards) > Cardinality(EligiblePositions)
  /\ \E p \in EligiblePositions : p < PosOf(bugs[1])

\* ---------------------------------------------------- the pure functions

\* The bug carries a label whose lower-cased name is name.
Carries(b, name) == \E k \in DOMAIN b.card.labels : toLowerCase(b.card.labels[k]) = name

Recognized(b) == \E i \in DOMAIN PRIORITY_ORDER : Carries(b, PRIORITY_ORDER[i])

\* The positions of the argument whose bug is in the returned list.
Kept == {p \in DOMAIN sourceCards : \E k \in DOMAIN bugs : bugs[k] = sourceCards[p]}

\* The returned list is a sublist of the argument, in the argument's order.
InOriginalOrder ==
  /\ \A k \in DOMAIN bugs : \E p \in DOMAIN sourceCards : sourceCards[p] = bugs[k]
  /\ \A k, l \in DOMAIN bugs : k < l => PosOf(bugs[k]) < PosOf(bugs[l])

\* C11: sortByPriority returns a permutation of its argument in which a
\* better-ranked bug comes before a worse-ranked one, bugs without a
\* recognized priority label come last, bugs of equal rank keep their
\* original relative order, and the argument is left as it was.
C11_StableRankSort ==
  rpc = "sortByPriority" =>
    /\ Len(bugs) = Len(sourceCards)
    /\ Kept = DOMAIN sourceCards
    /\ \A k, l \in DOMAIN bugs :
         k < l =>
           /\ getPriority(bugs[k].card) <= getPriority(bugs[l].card)
           /\ Recognized(bugs[k]) \/ ~Recognized(bugs[l])
           /\ getPriority(bugs[k].card) = getPriority(bugs[l].card)
                => PosOf(bugs[k]) < PosOf(bugs[l])
    /\ \A p \in DOMAIN sourceCards : sourceCards[p].card.id = CardIds[p]

\* The sort reorders, with a tie among bugs that have no priority label.
C11_Witness ==
  /\ rpc = "sortByPriority"
  /\ bugs # sourceCards
  /\ \E k, l \in DOMAIN bugs :
       k < l /\ ~Recognized(bugs[k]) /\ ~Recognized(bugs[l])

\* C12: getPriority returns 0 for critical, 1 for high, 2 for medium, 3 for
\* low and 4 without a recognized priority label, whatever the case of the
\* names; with several priority labels the best rank wins, and a card with
\* the same names in another order gets the same rank.
C12_PriorityRank ==
  rpc = "getPriority" =>
    /\ idx = IF Carries(bugs[1], "critical") THEN 0
             ELSE IF Carries(bugs[1], "high") THEN 1
             ELSE IF Carries(bugs[1], "medium") THEN 2
             ELSE IF Carries(bugs[1], "low") THEN 3
             ELSE 4
    /\ \A ls \in PureLabelLists :
         {ls[k] : k \in DOMAIN ls}
           = {bugs[1].card.labels[k] : k \in DOMAIN bugs[1].card.labels}
         => getPriority(Bug("other", ls).card) = idx

\* A card whose first priority label is not its best one.
C12_Witness ==
  /\ rpc = "getPriority"
  /\ idx = 0
  /\ \E k, l \in DOMAIN bugs[1].card.labels :
       k < l /\ bugs[1].card.labels[k] = "low" /\ bugs[1].card.labels[l] = "critical"

\* C13: filterByLabel returns exactly the bugs carrying the label, names
\* compared without regard to case, in their original order, and filtering
\* its result again by the same label changes nothing.
C13_FilterByLabel ==
  /\ [](rpc \in {"filterByLabel", "filterByLabel again"} =>
          /\ InOriginalOrder
          /\ Kept = {p \in DOMAIN sourceCards :
                       Carries(sourceCards[p], toLowerCase(opts.label))})
  /\ [][rpc' = "filterByLabel again" => bugs' = bugs]_vars

\* The label "Bug" selects a card labelled "bug" and drops another card.
C13_Witness ==
  /\ rpc = "filterByLabel again"
  /\ opts.label = "Bug"
  /\ bugs # <<>>
  /\ Len(bugs) < Len(sourceCards)
  /\ \E k \in DOMAIN bugs : \E j \in DOMAIN bugs[k].card.labels :
       bugs[k].card.labels[j] = "bug"

\* C14: filterByRetry returns exactly the bugs carrying fix-failed or
\* needs-human, names compared without regard to case, in their original
\* order; the bugs returned and the bugs left out share no bug and together
\* are the whole argument.
C14_FilterByRetry ==
  rpc = "filterByRetry" =>
    LET leftOut == {p \in DOMAIN sourceCards :
                      ~Carries(sourceCards[p], "fix-failed")
                      /\ ~Carries(sourceCards[p], "needs-human")}
    IN  /\ InOriginalOrder
        /\ Kept = {p \in DOMAIN sourceCards :
                     Carries(sourceCards[p], "fix-failed")
                     \/ Carries(sourceCards[p], "needs-human")}
        /\ Kept \cap leftOut = {}
        /\ Kept \cup leftOut = DOMAIN sourceCards
        /\ Len(bugs) + Cardinality(leftOut) = Len(sourceCards)

\* One bug kept for Fix-Failed, one for needs-human, one left out.
C14_Witness ==
  /\ rpc = "filterByRetry"
  /\ Len(bugs) = 2
  /\ Len(sourceCards) = 3
  /\ \E j \in DOMAIN bugs[1].card.labels : bugs[1].card.labels[j] = "Fix-Failed"
  /\ \E j \in DOMAIN bugs[2].card.labels : bugs[2].card.labels[j] = "needs-human"

\* ------------------------------------------- claims: failures in fixBug

\* The failed calls of invocation i that no inner try guards: the agent, the
\* test runner, the label and comment of the tests-failed path, moveCard and
\* the success comment.
PrimaryFailures(i) ==
  {k \in DOMAIN calls :
     /\ calls[k].inv = i
     /\ ~calls[k].ok
     /\ \/ calls[k].op \in {"invokeAgent", "runTests", "moveCard"}
        \/ calls[k].op = "addLabel" /\ calls[k].arg = <<"fix-failed">>
        \/ calls[k].op = "addComment" /\ calls[k].text.kind \in {"tests-failed", "fixed"}}

\* The failed calls of the failure branch: its label and its comment.
SecondaryFailures(i) ==
  {k \in DOMAIN calls :
     /\ calls[k].inv = i
     /\ ~calls[k].ok
     /\ \/ calls[k].op = "addLabel" /\ calls[k].arg = <<"needs-human">>
        \/ calls[k].op = "addComment" /\ calls[k].text.kind = "failed"}

\* C15: an invocation whose tests failed is labelled fix-failed and not
\* needs-human, one whose agent or test runner threw is labelled needs-human
\* and not fix-failed, and no invocation issues both addLabel calls.
C15_DistinctClassification ==
  \A i \in Invocations :
    /\ ~(IssuedWith(i, "addLabel", <<"fix-failed">>)
         /\ IssuedWith(i, "addLabel", <<"needs-human">>))
    /\ (Returned(i) /\ TestsReported(i, FALSE)) =>
         IssuedWith(i, "addLabel", <<"fix-failed">>)
    /\ (Returned(i) /\ (AgentThrew(i) \/ Failed(i, "runTests"))) =>
         IssuedWith(i, "addLabel", <<"needs-human">>)

\* C16: in the failure branch a rejected needs-human label or a rejected
\* failure comment is swallowed: fixBug still returns, with success = false
\* and, as error, the message of the one unguarded call that failed.
C16_SecondaryFailureSwallowed ==
  \A i \in Invocations :
    /\ fix[i].pc # "threw"
    /\ SecondaryFailures(i) # {} => Returned(i)
    /\ (Returned(i) /\ IssuedWith(i, "addLabel", <<"needs-human">>)) =>
         /\ ~fix[i].ret.success
         /\ Cardinality(PrimaryFailures(i)) = 1
         /\ \A k \in PrimaryFailures(i) : fix[i].ret.error = calls[k].out

\* The agent threw, the label went on, the failure comment was rejected, and
\* the error reported is the agent's, not the board's.
C16_Witness ==
  \E i \in Invocations :
    /\ Returned(i)
    /\ AgentThrew(i)
    /\ \E k \in SecondaryFailures(i) : calls[k].op = "addComment"
    /\ fix[i].ret.error # BoardError
    /\ \A k \in SecondaryFailures(i) : fix[i].ret.error # calls[k].out

\* The case of C17: the agent returned, the tests passed, the card was moved
\* and the success comment was appended.
PrimarySucceeded(i) ==
  /\ Returned(i)
  /\ Succeeded(i, "invokeAgent")
  /\ TestsReported(i, TRUE)
  /\ Moved(i)
  /\ \E k \in CallsAt(i, "addComment") : calls[k].ok /\ calls[k].text.kind = "fixed"

\* C17: a failed createBranch, blame, getDiff, commitAndPush, createPR or
\* removeLabel never leads into the failure branch, and when the agent, the
\* tests, moveCard and the success comment succeed the outcome has
\* success = true, without the field the failed step would have set.
C17_BestEffortSteps ==
  \A i \in Invocations :
    /\ IssuedWith(i, "addLabel", <<"needs-human">>) => PrimaryFailures(i) # {}
    /\ PrimarySucceeded(i) =>
         /\ fix[i].ret.success
         /\ fix[i].ret.error = Undef
         /\ Failed(i, "createBranch") => fix[i].ret.branch = Undef
         /\ Failed(i, "blame") => fix[i].ret.blameInfo = Undef
         /\ Failed(i, "getDiff") => fix[i].ret.diffSummary = Undef
         /\ (Failed(i, "commitAndPush") \/ Failed(i, "createPR")) => fix[i].ret.prUrl = Undef

\* Blame, diff, the PR and a label removal failed, and the fix succeeded.
C17_Witness ==
  \E i \in Invocations :
    /\ PrimarySucceeded(i)
    /\ Failed(i, "blame")
    /\ Failed(i, "getDiff")
    /\ Failed(i, "createPR")
    /\ Failed(i, "removeLabel")
    /\ fix[i].ret.success

\* createBranch failed, nothing was pushed, and the fix succeeded.
C17_WitnessNoBranch ==
  \E i \in Invocations :
    /\ PrimarySucceeded(i)
    /\ Failed(i, "createBranch")
    /\ ~Issued(i, "commitAndPush")
    /\ fix[i].ret.success

\* --------------------------------------------------------- claims: run

\* A webhook request was answered with a failure.
WebhookFailed == \E k \in DOMAIN calls : calls[k].op = "sendWebhook" /\ ~calls[k].ok

\* The first half of C18: a webhook request that settles, resolved or
\* rejected, is followed by run returning the report it had generated.
C18_WebhookFailureSwallowed ==
  /\ [](WebhookFailed => (rpc = "done" /\ report = generateReport(results)))
  /\ [][rpc = "webhook" => (rpc' = "done" /\ report' = report)]_vars

\* C18: with a webhook configured, run returns its report whatever becomes
\* of the request, also when the request never completes.
C18_WebhookNeverBlocks == (rpc = "webhook") ~> (rpc = "done")

\* A lookup of the setup failed: the board or a list was not found, or the
\* request was rejected.
LookupFailed ==
  \E k \in DOMAIN calls :
    /\ calls[k].inv = 0
    /\ \/ calls[k].op \in {"findBoard", "findList"} /\ (~calls[k].ok \/ ~calls[k].out.def)
       \/ calls[k].op = "scanBugs" /\ ~calls[k].ok

\* Only the lookups of the setup have been called.
OnlyLookups ==
  \A k \in DOMAIN calls :
    calls[k].inv = 0 /\ calls[k].op \in {"findBoard", "findList", "scanBugs"}

\* C19: missing credentials, a board, done list or source list that is not
\* found, or a rejected lookup make run throw, and when run has thrown no
\* fixBug invocation has started, no call but the lookups has been issued,
\* nothing was printed, no report exists and no webhook was sent.
C19_SetupFailureThrows ==
  /\ LookupFailed => rpc = "threw"
  /\ rpc = "threw" =>
       /\ calls # <<>> => LookupFailed
       /\ OnlyLookups
       /\ \A i \in Invocations : fix[i].pc = "idle"
       /\ bugs = <<>>
       /\ results = <<>>
       /\ printed = <<>>
       /\ report = NoReport

\* The source list is not found although the board holds cards.
C19_Witness ==
  /\ rpc = "threw"
  /\ sourceCards # <<>>
  /\ calls # <<>>
  /\ calls[Len(calls)].op = "scanBugs"
  /\ calls[Len(calls)].out = Str(<<"List not found">>, 14)

\* Missing credentials: run throws before any call.
C19_WitnessNoCredentials == rpc = "threw" /\ calls = <<>>

\* C20: when the filters leave no bug, run returns a report with total,
\* fixed, failed and skipped all 0 and no results, prints nothing, starts no
\* fixBug invocation and issues no call but its lookups and the webhook.
C20_EmptyRun ==
  (rpc \in {"webhook", "done"} /\ EligiblePositions = {}) =>
    /\ bugs = <<>>
    /\ report = [total |-> 0, fixed |-> 0, failed |-> 0, skipped |-> 0, results |-> <<>>]
    /\ printed = <<>>
    /\ \A i \in Invocations : fix[i].pc = "idle"
    /\ \A k \in DOMAIN calls :
         /\ calls[k].inv = 0
         /\ calls[k].op \in {"findBoard", "findList", "scanBugs", "sendWebhook"}
         /\ calls[k].op = "sendWebhook" => opts.webhook

\* The source list holds a card, the filters drop it, and run has returned.
C20_Witness ==
  /\ rpc = "done"
  /\ sourceCards # <<>>
  /\ bugs = <<>>
  /\ report.total = 0

\* --------------------------------------- claims: the order of fixBug's calls

\* The place of a call in the pipeline of core.ts:280-361, 0 for the calls
\* of the tests-failed path and of the failure branch.
StepOf(c) ==
  CASE c.op = "createBranch" -> 1
    [] c.op = "blame" -> 2
    [] c.op = "invokeAgent" -> 3
    [] c.op = "getDiff" -> 4
    [] c.op = "runTests" -> 5
    [] c.op = "commitAndPush" -> 6
    [] c.op = "createPR" -> 7
    [] c.op = "removeLabel" /\ c.arg = <<"fix-failed">> -> 8
    [] c.op = "removeLabel" /\ c.arg = <<"needs-human">> -> 9
    [] c.op = "moveCard" -> 10
    [] c.op = "addComment" /\ c.text.kind = "fixed" -> 11
    [] OTHER -> 0

\* The steps no condition skips.
AlwaysAttempted == {1, 2, 3, 4, 5, 8, 10}

\* The positions in calls of the pipeline calls of invocation i.
Pipeline(i) == {k \in DOMAIN calls : calls[k].inv = i /\ StepOf(calls[k]) > 0}

\* C28: the pipeline calls of an invocation come in the fixed order
\* createBranch, blame, agent, getDiff, tests, commitAndPush, createPR,
\* removeLabel(fix-failed), removeLabel(needs-human), moveCard, success
\* comment, each at most once; a call comes only after the unconditional
\* steps before it were attempted, after the agent only if the agent
\* returned, after the tests only if they passed, and the success comment
\* only if moveCard succeeded; createBranch gets the name fix/card-<id>.
C28_CallOrder ==
  \A i \in Invocations :
    /\ \A k, l \in Pipeline(i) : k < l => StepOf(calls[k]) < StepOf(calls[l])
    /\ \A l \in Pipeline(i) :
         /\ \A m \in AlwaysAttempted :
              m < StepOf(calls[l]) => \E k \in Pipeline(i) : k < l /\ StepOf(calls[k]) = m
         /\ StepOf(calls[l]) > 3 => Succeeded(i, "invokeAgent")
         /\ StepOf(calls[l]) > 5 => TestsReported(i, TRUE)
         /\ StepOf(calls[l]) > 10 => Succeeded(i, "moveCard")
         /\ StepOf(calls[l]) = 1 =>
              calls[l].arg = <<"fix/card-", fix[i].bug.card.id>>
    /\ fix[i].dryRun => Pipeline(i) = {}

\* All eleven calls were issued.
C28_Witness ==
  \E i \in Invocations :
    /\ Returned(i)
    /\ {StepOf(calls[k]) : k \in Pipeline(i)} = 1..11

\* The agent threw, after createBranch and blame had been attempted.
C28_WitnessAgentThrew ==
  \E i \in Invocations :
    /\ AgentThrew(i)
    /\ {StepOf(calls[k]) : k \in Pipeline(i)} = 1..3

\* C29: commitAndPush is called exactly when the agent returned, the tests
\* passed and createBranch had succeeded; createPR only in PR mode after a
\* successful commitAndPush.  After a failed createBranch nothing is pushed
\* and no PR is opened, also in PR mode, and with the agent, the tests,
\* moveCard and the success comment succeeding the card is moved and the
\* outcome has success = true, no branch and no prUrl.
C29_CommitNeedsBranch ==
  \A i \in Invocations :
    /\ Issued(i, "commitAndPush") =>
         (Succeeded(i, "invokeAgent") /\ TestsReported(i, TRUE) /\ Succeeded(i, "createBranch"))
    /\ (Returned(i) /\ Succeeded(i, "invokeAgent") /\ TestsReported(i, TRUE)
          /\ Succeeded(i, "createBranch")) => Issued(i, "commitAndPush")
    /\ Issued(i, "createPR") => (fix[i].pr /\ Succeeded(i, "commitAndPush"))
    /\ Failed(i, "createBranch") =>
         /\ ~Issued(i, "commitAndPush")
         /\ ~Issued(i, "createPR")
         /\ PrimarySucceeded(i) =>
              /\ Moved(i)
              /\ fix[i].ret.success
              /\ fix[i].ret.branch = Undef
              /\ fix[i].ret.prUrl = Undef

\* PR mode, createBranch failed, and the card was moved.
C29_Witness ==
  \E i \in Invocations :
    /\ fix[i].pr
    /\ Failed(i, "createBranch")
    /\ PrimarySucceeded(i)
    /\ fix[i].ret.success

\* C30: after a test run that reported passed = false the invocation issues
\* no removeLabel, commitAndPush, createPR or moveCard call and no success
\* comment.
C30_TestsFailedNoCleanup ==
  \A i \in Invocations :
    TestsReported(i, FALSE) =>
      /\ \A op \in {"removeLabel", "commitAndPush", "createPR", "moveCard"} : ~Issued(i, op)
      /\ \A k \in CallsAt(i, "addComment") : calls[k].text.kind # "fixed"
      /\ fix[i].pc \in {"failLabel", "failComment", "catchLabel", "catchComment", "returned"}

\* The tests failed, on a branch that had been created, and fixBug returned.
C30_Witness ==
  \E i \in Invocations :
    /\ TestsReported(i, FALSE)
    /\ Succeeded(i, "createBranch")
    /\ Returned(i)
    /\ fix[i].ret.error = TestsFailedError

\* ------------------------------------------------ claims: the loop of run

\* C24: within a run no card is processed twice: the selected bugs have
\* distinct card ids, the fixBug invocations are for distinct cards, each
\* card gets at most one createBranch and one agent call, and results holds
\* at most one outcome per card id.
C24_NoBugTwice ==
  /\ \A k, l \in DOMAIN bugs : k # l => bugs[k].card.id # bugs[l].card.id
  /\ \A k, l \in DOMAIN results : k # l => results[k].cardId # results[l].cardId
  /\ \A i, j \in Invocations :
       (i # j /\ Started(i) /\ Started(j)) => fix[i].bug.card.id # fix[j].bug.card.id
  /\ \A i \in Invocations :
       /\ Cardinality(CallsAt(i, "createBranch")) <= 1
       /\ Cardinality(CallsAt(i, "invokeAgent")) <= 1
       /\ \A k \in DOMAIN calls : calls[k].inv = i => calls[k].card = bugs[i].card.id
  /\ Len(results) <= Len(bugs)

\* Two bugs were processed and the run has returned.
C24_Witness ==
  /\ rpc = "done"
  /\ Len(results) = 2
  /\ Issued(1, "invokeAgent")
  /\ Issued(2, "invokeAgent")

\* C27: in json mode run prints no per-bug line; otherwise it prints one
\* line per processed bug, in order, with the card name and the success
\* mark, and for a failed bug the error text.
C27_PerBugLines ==
  /\ opts.json => printed = <<>>
  /\ ~opts.json =>
       /\ Len(printed) = Len(results)
       /\ \A k \in DOMAIN printed :
            /\ printed[k].cardName = results[k].cardName
            /\ printed[k].success = results[k].success
            /\ ~results[k].success =>
                 (printed[k].error = results[k].error /\ printed[k].error.len > 0)

\* Human-readable mode: a failed bug's line carries its error.
C27_Witness ==
  /\ ~opts.json
  /\ rpc = "done"
  /\ \E k \in DOMAIN printed : ~printed[k].success /\ printed[k].error.len > 0
  /\ \E k \in DOMAIN printed : printed[k].success

\* json mode: a bug was processed and nothing was printed.
C27_WitnessJson ==
  /\ opts.json
  /\ rpc = "done"
  /\ results # <<>>
  /\ printed = <<>>

\* ------------------------------------------------- claims: the surfaces

C21_WitnessFixBug ==
  /\ env.surface = "fix_bug"
  /\ opts.dryRun
  /\ rpc = "done"
  /\ Len(results) = 1
  /\ results[1].cardId = env.cardId

\* The surface has made its selection.
Selected ==
  \/ env.surface \in {"cli", "retry_failed", "get_report"} /\ idx >= 1
  \/ env.surface = "scan_bugs" /\ rpc = "done"

\* The eligible bugs of the source list in stable priority order.
SortedEligible == sortByPriority(SelectSeq(sourceCards, Eligible))

\* C22: on every surface with a limit the selection is the sorted eligible
\* list, cut to its first min(N, length) bugs when the limit is a positive
\* number N, and whole when the limit is absent, zero or negative.
C22_LimitOnlyWhenPositive ==
  Selected =>
    bugs = SubSeq(SortedEligible, 1,
                  IF HasLimit /\ opts.limit.n < Len(SortedEligible)
                  THEN opts.limit.n ELSE Len(SortedEligible))

C23_WitnessThrew ==
  /\ env.surface = "cli"
  /\ rpc = "exited"
  /\ env.exitCode = 1
  /\ opts.json
  /\ LookupFailed

\* ------------------------------------------------- claims: the test runner

CommandGiven == env.runner.command.def /\ env.runner.command.text # ""

\* The command the detection policy names, "" for none.
PolicyCommand ==
  IF CommandGiven THEN env.runner.command.text
  ELSE IF "package.json" \in env.runner.files THEN "npm test"
  ELSE IF \E f \in {"pytest.ini", "setup.py", "pyproject.toml"} : f \in env.runner.files
       THEN "pytest"
  ELSE ""

\* C25: the test runner executes the override command when one is given,
\* else npm test when package.json exists, else pytest when pytest.ini,
\* setup.py or pyproject.toml exists, else nothing, and then reports
\* passed=true with the explanatory output; a command that exits non-zero
\* or times out gives passed=false as a fulfilled value, never a rejection.
C25_TestRunnerPolicy ==
  rpc \in {"execAsync", "returned"} =>
    /\ env.runner.executed = (IF PolicyCommand = "" THEN <<>> ELSE <<PolicyCommand>>)
    /\ rpc = "execAsync" => PolicyCommand # ""
    /\ rpc = "returned" =>
         /\ ~env.runner.result.threw
         /\ PolicyCommand = "" =>
              /\ env.runner.result.passed
              /\ env.runner.result.output = <<"(no test framework detected, skipping)">>
         /\ PolicyCommand # "" =>
              (env.runner.result.passed <=> env.runner.outcome.kind = "exit 0")

\* The detected command was killed at the timeout and the runner returned
\* passed=false.
C25_Witness ==
  /\ rpc = "returned"
  /\ ~CommandGiven
  /\ env.runner.files = {"package.json", "setup.py"}
  /\ env.runner.executed = <<"npm test">>
  /\ env.runner.outcome.kind = "timeout"
  /\ ~env.runner.result.passed
  /\ ~env.runner.result.threw

\* No framework, nothing executed, passed.
C25_WitnessNoFramework ==
  /\ rpc = "returned"
  /\ env.runner.files = {}
  /\ env.runner.command = [def |-> TRUE, text |-> ""]
  /\ env.runner.executed = <<>>
  /\ env.runner.result.passed

\* ------------------------------------------------- claims: the labels

\* A label of that name, letter case aside, is among the labels.
OnBoard(labels, labelName) ==
  \E k \in DOMAIN labels : toLowerCase(labels[k].name) = toLowerCase(labelName)

\* What the requests of the call under way were for, in order.
RequestsSent == [k \in DOMAIN env.trello.requests |-> env.trello.requests[k].what]

\* The requests of a call that meets no failed response.
RequestsDue ==
  IF env.trello.method = "addLabel"
  THEN (IF OnBoard(env.trello.before, env.trello.labelName)
        THEN <<"list", "attach">> ELSE <<"list", "create", "attach">>)
  ELSE (IF OnBoard(env.trello.before, env.trello.labelName)
        THEN <<"list", "delete">> ELSE <<"list">>)

\* The call under way has settled.
LabelCallSettled == rpc = "trello" /\ env.trello.made >= 1

\* C26: addLabel lists the board's labels, creates the label only when no
\* label of that name (letter case aside) is on the board, and attaches the
\* label found or created to the card: three requests, two when the label
\* exists; removeLabel lists the labels and sends a delete only when a
\* label of that name is on the board, and changes nothing otherwise.
C26_LabelRequests ==
  env.trello.made >= 1 =>
    /\ Len(RequestsSent) <= Len(RequestsDue)
    /\ RequestsSent = SubSeq(RequestsDue, 1, Len(RequestsSent))
    /\ (LabelCallSettled /\ ~env.trello.threw) => RequestsSent = RequestsDue
    /\ \A k \in DOMAIN env.trello.requests :
         env.trello.requests[k].what \in {"attach", "delete"} =>
           \E l \in DOMAIN env.trello.boardLabels :
             /\ env.trello.boardLabels[l].id = env.trello.requests[k].label
             /\ toLowerCase(env.trello.boardLabels[l].name) = toLowerCase(env.trello.labelName)
    /\ \A k, l \in DOMAIN env.trello.boardLabels :
         toLowerCase(env.trello.boardLabels[k].name) = toLowerCase(env.trello.boardLabels[l].name)
           => k = l
    /\ env.trello.method = "removeLabel" =>
         /\ env.trello.boardLabels = env.trello.before
         /\ ~OnBoard(env.trello.before, env.trello.labelName) =>
              env.trello.cardLabels = env.trello.cardBefore

\* addLabel created the label and attached it: three requests, all ok.
C26_Witness ==
  /\ LabelCallSettled
  /\ env.trello.method = "addLabel"
  /\ Len(env.trello.requests) = 3
  /\ \A k \in DOMAIN env.trello.requests : env.trello.requests[k].ok
  /\ env.trello.label \in env.trello.cardLabels

\* addLabel found "Fix-Failed" for "fix-failed": two requests.
C26_WitnessExisting ==
  /\ LabelCallSettled
  /\ env.trello.method = "addLabel"
  /\ env.trello.labelName = "fix-failed"
  /\ env.trello.before = <<[id |-> 1, name |-> "Fix-Failed"]>>
  /\ RequestsSent = <<"list", "attach">>
  /\ env.trello.requests[2].ok

\* removeLabel of a label the board does not have: the list request only.
C26_WitnessNoOp ==
  /\ LabelCallSettled
  /\ env.trello.method = "removeLabel"
  /\ ~env.trello.threw
  /\ RequestsSent = <<"list">>

\* ------------------------------------------- claims: the success path

\* Call k of invocation i is a removeLabel of the label name.
Removal(i, k, name) ==
  /\ k \in CallsAt(i, "removeLabel")
  /\ calls[k].arg = <<name>>

C32_AnyExceptionFailureHandling ==
  \A i \in Invocations :
    \A k \in PrimaryFailures(i) :
      /\ fix[i].pc \in {"catchLabel", "catchComment", "returned"}
      /\ fix[i].err = calls[k].out
      /\ fix[i].pc # "catchLabel" =>
           \E l \in CallsAt(i, "addLabel") : l > k /\ calls[l].arg = <<"needs-human">>
      /\ Returned(i) =>
           /\ ~fix[i].ret.success
           /\ fix[i].ret.summary = Empty
           /\ fix[i].ret.error = calls[k].out

\* moveCard threw and the failure outcome was returned.
C32_Witness ==
  \E i \in Invocations :
    /\ Returned(i)
    /\ Failed(i, "moveCard")
    /\ fix[i].ret.error = BoardError

\* The injected test runner threw.
C32_WitnessRunner ==
  \E i \in Invocations :
    /\ Returned(i)
    /\ Failed(i, "runTests")
    /\ fix[i].ret.error = RunnerError

\* The success comment threw after the card was moved.
C32_WitnessComment ==
  \E i \in Invocations :
    /\ Returned(i)
    /\ Moved(i)
    /\ \E k \in PrimaryFailures(i) : calls[k].op = "addComment" /\ calls[k].text.kind = "fixed"

\* The success comments of invocation i.
SuccessComments(i) ==
  {k \in CallsAt(i, "addComment") : calls[k].text.kind = "fixed"}

\* What C33 promises of success comment k of invocation i, but the PR link.
SummaryAndChanges(i, k) ==
  /\ calls[k].text.summary = fix[i].summary
  /\ calls[k].text.diff.def <=>
       \E d \in CallsAt(i, "getDiff") : calls[d].ok /\ calls[d].out.len > 0
  /\ calls[k].text.diff.def =>
       \E d \in CallsAt(i, "getDiff") : calls[d].ok /\ calls[d].out = calls[k].text.diff
  /\ \E m \in CallsAt(i, "moveCard") : m < k /\ calls[m].ok

\* C33 as stated: the success comment holds the whole agent summary, a
\* changes section exactly when a non-empty diff summary was captured, a PR
\* link exactly when createPR succeeded, and follows a moveCard that
\* succeeded.
C33_SuccessComment ==
  \A i \in Invocations :
    \A k \in SuccessComments(i) :
      /\ SummaryAndChanges(i, k)
      /\ calls[k].text.pr.def <=> Succeeded(i, "createPR")

\* C33 as amended: the same, with the PR link exactly when createPR
\* returned a non-empty URL.
C33_SuccessCommentNonEmptyUrl ==
  \A i \in Invocations :
    \A k \in SuccessComments(i) :
      /\ SummaryAndChanges(i, k)
      /\ calls[k].text.pr.def <=>
           \E c \in CallsAt(i, "createPR") : calls[c].ok /\ calls[c].out.len > 0
      /\ calls[k].text.pr.def =>
           \E c \in CallsAt(i, "createPR") : calls[c].out = calls[k].text.pr

\* A success comment with the long summary, no changes section (the diff
\* was empty) and a PR link.
C33_Witness ==
  \E i \in Invocations :
    \E k \in SuccessComments(i) :
      /\ calls[k].ok
      /\ calls[k].text.summary = LongSummary
      /\ ~calls[k].text.diff.def
      /\ \E d \in CallsAt(i, "getDiff") : calls[d].ok
      /\ calls[k].text.pr.def

\* ------------------------------------------------- claims: buildPrompt

\* The positions of the parts of a kind.
PartsOf(kind) ==
  {k \in DOMAIN env.prompt.parts : env.prompt.parts[k].kind = kind}

\* C34: buildPrompt gives the same parts on every call; the title comes
\* first, then a description part only for a non-empty description, then a
\* labels part only for a card with a label, then a comments heading only
\* when there is a comment, followed by one "author: text" part per comment
\* in the original order; no part is rendered for a missing section.
C34_PromptSections ==
  LET bug == env.prompt.bug
      parts == env.prompt.parts
      hasDesc == bug.desc.def /\ bug.desc.text # ""
      hasLabels == bug.labels # <<>>
      hasComments == bug.comments # <<>>
      heading == 1 + (IF hasDesc THEN 1 ELSE 0) + (IF hasLabels THEN 1 ELSE 0) + 1
  IN /\ rpc = "buildPrompt again" => env.prompt.again = parts
     /\ rpc \in {"buildPrompt", "buildPrompt again"} =>
          /\ parts[1] = Part("title", <<bug.name>>)
          /\ PartsOf("title") = {1}
          /\ PartsOf("description") = (IF hasDesc THEN {2} ELSE {})
          /\ hasDesc => parts[2].texts = <<bug.desc.text>>
          /\ PartsOf("labels") = (IF hasLabels THEN {heading - 1} ELSE {})
          /\ hasLabels => parts[heading - 1].texts = bug.labels
          /\ PartsOf("comments") = (IF hasComments THEN {heading} ELSE {})
          /\ PartsOf("comment") =
               (IF hasComments THEN (heading + 1)..(heading + Len(bug.comments)) ELSE {})
          /\ \A k \in DOMAIN bug.comments :
               parts[heading + k].texts = <<bug.comments[k].fullName, bug.comments[k].text>>
          /\ Len(parts) = (IF hasComments THEN heading + Len(bug.comments) ELSE heading - 1)

\* A bug with an empty description, no label and two comments: the title,
\* the heading and the two comments, twice the same.
C34_Witness ==
  /\ rpc = "buildPrompt again"
  /\ env.prompt.bug.desc = [def |-> TRUE, text |-> ""]
  /\ env.prompt.bug.labels = <<>>
  /\ Len(env.prompt.bug.comments) = 2
  /\ env.prompt.bug.comments[1] # env.prompt.bug.comments[2]
  /\ Len(env.prompt.parts) = 4

\* A bug with nothing but its title.
C34_WitnessTitleOnly ==
  /\ rpc = "buildPrompt"
  /\ env.prompt.bug.comments = <<>>
  /\ env.prompt.bug.labels = <<>>
  /\ ~env.prompt.bug.desc.def
  /\ Len(env.prompt.parts) = 1

\* ------------------------------------------------- claims: durationMs

\* The return path of a returned invocation.
ReturnPath(i) ==
  IF fix[i].dryRun THEN "dry-run"
  ELSE IF fix[i].ret.success THEN "success"
  ELSE IF fix[i].ret.error = TestsFailedError /\ fix[i].ret.summary # Empty
       THEN "tests failed"
  ELSE "exception"

\* C35: every outcome fixBug returns carries durationMs, on the dry-run,
\* tests-failed, success and exception paths; it is not negative and not
\* more than the time that passed since fixBug was entered.
C35_DurationPopulated ==
  \A i \in Invocations :
    Returned(i) =>
      /\ fix[i].ret.durationMs.def
      /\ fix[i].ret.durationMs.ms >= 0
      /\ fix[i].ret.durationMs.ms <= env.clock - fix[i].startTime

\* The exception path returned after time had passed.
C35_Witness ==
  \E i \in Invocations :
    /\ Returned(i)
    /\ ReturnPath(i) = "exception"
    /\ fix[i].startTime = 1
    /\ fix[i].ret.durationMs.ms = 1

\* Each of the other three paths returned after time had passed.
C35_WitnessDryRun ==
  \E i \in Invocations :
    Returned(i) /\ ReturnPath(i) = "dry-run" /\ fix[i].ret.durationMs.ms > 0

C35_WitnessTestsFailed ==
  \E i \in Invocations :
    Returned(i) /\ ReturnPath(i) = "tests failed" /\ fix[i].ret.durationMs.ms > 0

C35_WitnessSuccess ==
  \E i \in Invocations :
    Returned(i) /\ ReturnPath(i) = "success" /\ fix[i].ret.durationMs.ms > 0

\* ------------------------------------------------- claims: retry

\* The label names of a card after the board has carried out the calls cs
\* that invocation i issued and that succeeded, in order.
RECURSIVE LabelsAfter(_, _, _)
LabelsAfter(labels, cs, i) ==
  IF cs = <<>> THEN labels
  ELSE LET c == Head(cs)
           next ==
             IF c.inv # i \/ ~c.ok THEN labels
             ELSE IF c.op = "addLabel"
                  THEN (IF \E k \in DOMAIN labels :
                             toLowerCase(labels[k]) = toLowerCase(c.arg[1])
                        THEN labels ELSE Append(labels, c.arg[1]))
             ELSE IF c.op = "removeLabel"
                  THEN SelectSeq(labels,
                                 LAMBDA n : toLowerCase(n) # toLowerCase(c.arg[1]))
             ELSE labels
       IN LabelsAfter(next, Tail(cs), i)

\* What a scan of the source list finds of invocation i's card afterwards:
\* nothing when the card was moved, else the card with its labels.
ScanAfter(i) ==
  IF Moved(i) THEN <<>>
  ELSE <<[fix[i].bug EXCEPT
            !.card.labels = LabelsAfter(fix[i].bug.card.labels, calls, i)]>>

C37_SelectionOrderAgrees ==
  (Selected /\ env.surface \in {"scan_bugs", "retry_failed", "get_report"}
            /\ (opts.limit.set => opts.limit.n >= 0)) =>
    bugs = SelectBugs(sourceCards, opts)

\* get_report with a label and a limit selected two bugs in another order
\* than the list's, leaving a card out.
C37_Witness ==
  /\ Selected
  /\ env.surface = "get_report"
  /\ opts.label = "Bug"
  /\ opts.limit = Limit(2)
  /\ Len(sourceCards) = 3
  /\ Len(bugs) = 2
  /\ bugs[1] = sourceCards[3]
  /\ bugs[2] = sourceCards[1]

\* retry_failed selected the two marked bugs in priority order.
C37_WitnessRetry ==
  /\ Selected
  /\ env.surface = "retry_failed"
  /\ Len(sourceCards) = 3
  /\ Len(bugs) = 2
  /\ bugs[1] = sourceCards[3]

\* ------------------------------------------------- claims: the outcome

\* C38: in every outcome fixBug returns, prUrl is present only with
\* success = true, PR mode and a branch; testOutput only when the agent
\* succeeded; branch only when createBranch succeeded, and it is
\* "fix/card-<card id>"; error is present exactly when success = false.
C38_OutcomeFields ==
  \A i \in Invocations :
    Returned(i) =>
      /\ fix[i].ret.prUrl.def =>
           (fix[i].ret.success /\ fix[i].pr /\ fix[i].ret.branch.def)
      /\ fix[i].ret.testOutput.def => Succeeded(i, "invokeAgent")
      /\ fix[i].ret.branch.def =>
           /\ Succeeded(i, "createBranch")
           /\ fix[i].ret.branch = Str(<<"fix/card-", fix[i].bug.card.id>>, 11)
      /\ fix[i].ret.error.def <=> ~fix[i].ret.success

\* A success outcome with a PR URL, a branch and the test output.
C38_Witness ==
  \E i \in Invocations :
    /\ Returned(i)
    /\ fix[i].ret.success
    /\ fix[i].ret.prUrl.def
    /\ fix[i].ret.branch.def
    /\ fix[i].ret.testOutput.def

\* A failure outcome after createBranch failed and the tests failed.
C38_WitnessTestsFailed ==
  \E i \in Invocations :
    /\ Returned(i)
    /\ ~fix[i].ret.success
    /\ Failed(i, "createBranch")
    /\ ~fix[i].ret.branch.def
    /\ fix[i].ret.testOutput.def
    /\ fix[i].ret.error.def

\* ------------------------------------------------- claims: the webhook

\* The positions in calls of the webhook deliveries.
Deliveries == {k \in DOMAIN calls : calls[k].op = "sendWebhook"}

\* C39: with a webhook configured, run makes one delivery, after every
\* selected bug's outcome was recorded and the report was generated from
\* them, and returns that report; without a webhook it makes none.  Dry
\* runs and empty bug lists included.
C39_OneDelivery ==
  /\ Cardinality(Deliveries) <= 1
  /\ ~opts.webhook => Deliveries = {}
  /\ Deliveries # {} =>
       /\ Deliveries = {Len(calls)}
       /\ rpc = "done"
       /\ Len(results) = Len(bugs)
       /\ \A i \in DOMAIN bugs : Returned(i) /\ results[i] = fix[i].ret
       /\ report = generateReport(results)
  /\ (rpc = "done" /\ opts.webhook) => Cardinality(Deliveries) = 1

\* One delivery after two outcomes, one of them a failure.
C39_Witness ==
  /\ rpc = "done"
  /\ opts.webhook
  /\ Cardinality(Deliveries) = 1
  /\ report.total = 2
  /\ report.failed >= 1

\* One delivery for an empty bug list.
C39_WitnessEmpty ==
  /\ rpc = "done"
  /\ opts.webhook
  /\ Cardinality(Deliveries) = 1
  /\ report.total = 0

\* One delivery after a dry run of two bugs.
C39_WitnessDryRun ==
  /\ rpc = "done"
  /\ opts.webhook
  /\ opts.dryRun
  /\ Cardinality(Deliveries) = 1
  /\ report.total = 2

====
